---- MODULE Spec2Model ----
(***************************************************************************)
(* A model of grovina/raas-tools: the invoice reference codec              *)
(* (src/src/invoice-utils.ts) and the currency converter                   *)
(* (src/src/currency-converter.ts).                                        *)
(*                                                                         *)
(* Strings are sequences of one-character strings.  JavaScript numbers are *)
(* modelled as exact rationals extended with NaN and the two infinities.   *)
(***************************************************************************)
EXTENDS Integers, Sequences, FiniteSets, TLC

VARIABLES
    invoiceNumber,   \* argument of the last generateSCORReference call
    scor,            \* outcome of that call: [status, value]
    fetch,           \* outcome of getOfficialExchangeRates: [status, rates]
    conv,            \* the last convertCurrency call: [amount, from, to, out]
    back,            \* the call converting conv's result back: [called, out]
    serviceResponse, \* what the exchange-rate service answered: [kind, rates]
    numbering,       \* the last generateInvoiceNumberFromFile call
    gen,             \* a run of the invoice generator: [pc, ..., date, pdf]
    step,            \* where a run of the report generator stands
    fetchCalls,      \* calls of getOfficialExchangeRates made by that run
    exchangeRates,   \* its rate table, once fetched
    invoices,        \* the invoices it read from the files, in reading order
    processed,       \* how many of them invoices.forEach has handled
    report,          \* its report object
    warnings,        \* conversion warnings it logged
    written,         \* languages of the report files it wrote
    markdown,        \* the quarterly table of the report files
    exitCode,        \* -1 while it runs, then the process exit code
    totals,          \* the CHF accumulators of an aggregation in IEEE doubles
    native,          \* its accumulators in the invoices' own currencies
    billed,          \* history: the exact sum of the invoice totals per month and currency
    pair,            \* one invoice file numbered by the generator and by the report
    mmd              \* a run of the mermaid-to-png tool

\* the state of the invoice reference codec
refVars == <<invoiceNumber, scor>>

\* the state of the exchange-rate provider and the currency converter
fxVars == <<fetch, conv, back, serviceResponse>>

\* the state of the invoice numbering
numVars == <<numbering>>

\* the state of a run of the invoice generator
genVars == <<gen>>

\* the state of a run of the report generator
repVars == <<step, fetchCalls, exchangeRates, invoices, processed, report,
             warnings, written, markdown, exitCode>>

\* the state of the CHF accumulation in double precision
sumVars == <<totals, native, billed>>

\* the state of the two numberings of one invoice file
pairVars == <<pair>>

\* the state of a run of mermaid-to-png
mmdVars == <<mmd>>

vars == <<refVars, fxVars, numVars, genVars, repVars, sumVars, pairVars, mmdVars>>

(***************************************************************************)
(* Characters and strings                                                  *)
(***************************************************************************)
DigitChars == <<"0", "1", "2", "3", "4", "5", "6", "7", "8", "9">>

UpperChars == <<"A", "B", "C", "D", "E", "F", "G", "H", "I", "J", "K", "L", "M",
                "N", "O", "P", "Q", "R", "S", "T", "U", "V", "W", "X", "Y", "Z">>

LowerChars == <<"a", "b", "c", "d", "e", "f", "g", "h", "i", "j", "k", "l", "m",
                "n", "o", "p", "q", "r", "s", "t", "u", "v", "w", "x", "y", "z">>

Range(s) == {s[i] : i \in DOMAIN s}

IndexOf(s, c) == CHOOSE i \in DOMAIN s : s[i] = c

\* /[0-9]/.test(char)
IsDigit(c) == c \in Range(DigitChars)

IsUpper(c) == c \in Range(UpperChars)

IsLower(c) == c \in Range(LowerChars)

\* a character the class [a-zA-Z0-9] matches
IsAlnum(c) == IsDigit(c) \/ IsUpper(c) \/ IsLower(c)

\* char.charCodeAt(0), for the ASCII characters of the model
charCodeAt(c) ==
    IF IsDigit(c) THEN 47 + IndexOf(DigitChars, c)
    ELSE IF IsUpper(c) THEN 64 + IndexOf(UpperChars, c)
    ELSE IF IsLower(c) THEN 96 + IndexOf(LowerChars, c)
    ELSE IF c = " " THEN 32
    ELSE IF c = "-" THEN 45
    ELSE 47

\* String.prototype.toUpperCase, one character
UpperOfChar(c) == IF IsLower(c) THEN UpperChars[IndexOf(LowerChars, c)] ELSE c

toUpperCase(s) == [i \in DOMAIN s |-> UpperOfChar(s[i])]

\* Number.prototype.toString of a natural number
RECURSIVE NatToString(_)
NatToString(n) ==
    IF n < 10 THEN <<DigitChars[n + 1]>>
    ELSE NatToString(n \div 10) \o <<DigitChars[(n % 10) + 1]>>

\* String.prototype.padStart(width, fill) with a one-character fill
RECURSIVE padStart(_, _, _)
padStart(s, width, fill) ==
    IF Len(s) >= width THEN s ELSE padStart(<<fill>> \o s, width, fill)

\* invoiceNumber.replace(/[^a-zA-Z0-9]/g, "")
RECURSIVE StripNonAlnum(_)
StripNonAlnum(s) ==
    IF s = <<>> THEN <<>>
    ELSE IF IsAlnum(Head(s)) THEN <<Head(s)>> \o StripNonAlnum(Tail(s))
    ELSE StripNonAlnum(Tail(s))

\* the callback of both .map calls: a digit stays, any other character
\* becomes the decimal text of its code minus 55
LetterToNumber(c) == IF IsDigit(c) THEN <<c>> ELSE NatToString(charCodeAt(c) - 55)

\* s.split("").map(LetterToNumber).join("")
RECURSIVE MapJoin(_)
MapJoin(s) ==
    IF s = <<>> THEN <<>> ELSE LetterToNumber(Head(s)) \o MapJoin(Tail(s))

\* BigInt(digits) % m.  BigInt is unbounded, so the remainder is taken digit
\* by digit (Horner), which is the same number and stays in machine range.
RECURSIVE BigIntMod(_, _)
BigIntMod(digits, m) ==
    IF digits = <<>> THEN 0
    ELSE (BigIntMod(SubSeq(digits, 1, Len(digits) - 1), m) * 10
          + (IndexOf(DigitChars, digits[Len(digits)]) - 1)) % m

(***************************************************************************)
(* generateSCORReference                                                   *)
(***************************************************************************)
RFTemplate == <<"R", "F", "0", "0">>

\* a variant that puts the template first, as the comment of line 101 says
CheckDigitsOf_Prepend(converted) ==
    LET withRF  == RFTemplate \o converted
        numeric == MapJoin(withRF)
        mod     == BigIntMod(numeric, 97)
    IN  padStart(NatToString(98 - mod), 2, "0")

\* a variant that subtracts the remainder from 97
CheckDigitsOf_From97(converted) ==
    LET withRF  == converted \o RFTemplate
        numeric == MapJoin(withRF)
        mod     == BigIntMod(numeric, 97)
    IN  padStart(NatToString(97 - mod), 2, "0")

\* a variant without the padStart of line 117
CheckDigitsOf_NoPad(converted) ==
    LET withRF  == converted \o RFTemplate
        numeric == MapJoin(withRF)
        mod     == BigIntMod(numeric, 97)
    IN  NatToString(98 - mod)

\* lines 102-117: the check digits of an already converted number
CheckDigitsOf(converted) ==
    LET withRF  == converted \o RFTemplate
        numeric == MapJoin(withRF)
        mod     == BigIntMod(numeric, 97)
    IN  padStart(NatToString(98 - mod), 2, "0")

\* a variant without the toUpperCase of line 93
generateSCORReference_NoUpper(number) ==
    LET cleanNumber == StripNonAlnum(number)
        converted   == MapJoin(cleanNumber)
    IN  <<"R", "F">> \o CheckDigitsOf(converted) \o cleanNumber

generateSCORReference(number) ==
    LET cleanNumber == StripNonAlnum(number)
        converted   == MapJoin(toUpperCase(cleanNumber))
    IN  <<"R", "F">> \o CheckDigitsOf(converted) \o cleanNumber

(***************************************************************************)
(* JavaScript numbers: exact rationals n/d (d > 0, lowest terms), NaN and  *)
(* the infinities (n is the sign).  `undefined` is the value of a missing  *)
(* property.  Rounding of doubles is not modelled.                         *)
(***************************************************************************)
Abs(x) == IF x < 0 THEN -x ELSE x

Sgn(x) == IF x < 0 THEN -1 ELSE IF x = 0 THEN 0 ELSE 1

RECURSIVE GCD(_, _)
GCD(a, b) == IF b = 0 THEN a ELSE GCD(b, a % b)

Fin(n, d) ==
    LET g == GCD(Abs(n), d)
    IN  [k |-> "fin", n |-> Sgn(n) * (Abs(n) \div g), d |-> d \div g]

NaN == [k |-> "nan", n |-> 0, d |-> 1]

Inf(sign) == [k |-> "inf", n |-> sign, d |-> 1]

Undefined == [k |-> "undefined", n |-> 0, d |-> 1]

\* the JSON value null
Null == [k |-> "null", n |-> 0, d |-> 1]

Zero == Fin(0, 1)

One == Fin(1, 1)

\* ToNumber(undefined) is NaN, ToNumber(null) is 0
ToNumber(v) ==
    IF v.k = "undefined" THEN NaN
    ELSE IF v.k = "null" THEN [k |-> "fin", n |-> 0, d |-> 1]
    ELSE v

\* the sign of a number, a zero counting as positive
SignOf(v) == IF v.n < 0 THEN -1 ELSE 1

IsZero(v) == v.k = "fin" /\ v.n = 0

\* a * b
Mul(x, y) ==
    LET a == ToNumber(x)
        b == ToNumber(y)
    IN  IF a.k = "nan" \/ b.k = "nan" THEN NaN
        ELSE IF a.k = "inf" \/ b.k = "inf"
             THEN IF IsZero(a) \/ IsZero(b) THEN NaN ELSE Inf(SignOf(a) * SignOf(b))
        ELSE Fin(a.n * b.n, a.d * b.d)

\* a / b
Div(x, y) ==
    LET a == ToNumber(x)
        b == ToNumber(y)
    IN  IF a.k = "nan" \/ b.k = "nan" THEN NaN
        ELSE IF a.k = "inf"
             THEN IF b.k = "inf" THEN NaN ELSE Inf(SignOf(a) * SignOf(b))
        ELSE IF b.k = "inf" THEN Zero
        ELSE IF IsZero(b) THEN IF IsZero(a) THEN NaN ELSE Inf(SignOf(a))
        ELSE Fin(a.n * b.d * SignOf(b), a.d * Abs(b.n))

\* the truthiness of a number, null or undefined: !v is true of undefined,
\* null, 0 and NaN
Truthy(v) == ~(v.k = "undefined" \/ v.k = "null" \/ v.k = "nan" \/ IsZero(v))

\* a + b
Add(x, y) ==
    LET a == ToNumber(x)
        b == ToNumber(y)
    IN  IF a.k = "nan" \/ b.k = "nan" THEN NaN
        ELSE IF a.k = "inf"
             THEN IF b.k = "inf" /\ b.n # a.n THEN NaN ELSE a
        ELSE IF b.k = "inf" THEN b
        ELSE Fin(a.n * b.d + b.n * a.d, a.d * b.d)

\* rates[currency]: the entry, or undefined
Lookup(rates, currency) ==
    IF currency \in DOMAIN rates THEN rates[currency] ELSE Undefined

(***************************************************************************)
(* convertCurrency                                                         *)
(***************************************************************************)
Returned(v) == [status |-> "returned", value |-> v]

Threw == [status |-> "threw", value |-> Undefined]

\* a variant with the two rates exchanged
convertCurrency_Swapped(amount, fromCurrency, toCurrency, rates) ==
    IF fromCurrency = toCurrency THEN Returned(amount)
    ELSE IF ~Truthy(Lookup(rates, fromCurrency)) \/ ~Truthy(Lookup(rates, toCurrency))
         THEN Threw
    ELSE LET amountInCHF == Mul(amount, Lookup(rates, toCurrency))
         IN  Returned(Div(amountInCHF, Lookup(rates, fromCurrency)))

\* a variant that tests the source currency's rate only
convertCurrency_OnlyFrom(amount, fromCurrency, toCurrency, rates) ==
    IF fromCurrency = toCurrency THEN Returned(amount)
    ELSE IF ~Truthy(Lookup(rates, fromCurrency))
         THEN Threw
    ELSE LET amountInCHF == Mul(amount, Lookup(rates, fromCurrency))
         IN  Returned(Div(amountInCHF, Lookup(rates, toCurrency)))

\* a variant without the early return of lines 69-71
convertCurrency_NoShortcut(amount, fromCurrency, toCurrency, rates) ==
    IF ~Truthy(Lookup(rates, fromCurrency)) \/ ~Truthy(Lookup(rates, toCurrency))
    THEN Threw
    ELSE LET amountInCHF == Mul(amount, Lookup(rates, fromCurrency))
         IN  Returned(Div(amountInCHF, Lookup(rates, toCurrency)))

\* a variant that multiplies by the target rate
convertCurrency_MulTo(amount, fromCurrency, toCurrency, rates) ==
    IF fromCurrency = toCurrency THEN Returned(amount)
    ELSE IF ~Truthy(Lookup(rates, fromCurrency)) \/ ~Truthy(Lookup(rates, toCurrency))
         THEN Threw
    ELSE LET amountInCHF == Mul(amount, Lookup(rates, fromCurrency))
         IN  Returned(Mul(amountInCHF, Lookup(rates, toCurrency)))

convertCurrency(amount, fromCurrency, toCurrency, rates) ==
    IF fromCurrency = toCurrency THEN Returned(amount)
    ELSE IF ~Truthy(Lookup(rates, fromCurrency)) \/ ~Truthy(Lookup(rates, toCurrency))
         THEN Threw
    ELSE LET amountInCHF == Mul(amount, Lookup(rates, fromCurrency))
         IN  Returned(Div(amountInCHF, Lookup(rates, toCurrency)))

(***************************************************************************)
(* getOfficialExchangeRates                                                *)
(***************************************************************************)
NoRates == [c \in {} |-> One]

\* lines 29-42: the table built from response.rates
BuildRates(responseRates) ==
    LET copied == [c \in DOMAIN responseRates \cup {"CHF"} |->
                      IF c \in DOMAIN responseRates THEN responseRates[c] ELSE One]
    IN  [c \in DOMAIN copied |-> IF c # "CHF" THEN Div(One, copied[c]) ELSE copied[c]]

\* the settlement of the promise for one outcome of the request:
\*   "error"   the request emits 'error'
\*   "garbage" the body is not JSON (JSON.parse throws)
\*   "norates" the body is JSON without a truthy rates member
\*   "rates"   the body is JSON with the rates object response.rates
getOfficialExchangeRates(response) ==
    IF response.kind = "rates"
    THEN [status |-> "resolved", rates |-> BuildRates(response.rates)]
    ELSE [status |-> "rejected", rates |-> NoRates]

(***************************************************************************)
(* generateInvoiceNumber and generateInvoiceNumberFromFile                 *)
(*                                                                         *)
(* Invoice data is a parsed JSON document: its number member (present or   *)
(* not, with its text) and the first eight hex characters of the SHA-256   *)
(* digest of its JSON.stringify text.  The digest is computed by Node's    *)
(* crypto module; the model carries the real digests of its documents.     *)
(***************************************************************************)
HexChars == <<"0", "1", "2", "3", "4", "5", "6", "7", "8", "9",
              "a", "b", "c", "d", "e", "f">>

\* parseInt(hex, 16) % m, taken digit by digit so that the eight-digit
\* number stays in machine range
RECURSIVE HexMod(_, _)
HexMod(hex, m) ==
    IF hex = <<>> THEN 0
    ELSE (HexMod(SubSeq(hex, 1, Len(hex) - 1), m) * 16
          + (IndexOf(HexChars, hex[Len(hex)]) - 1)) % m

\* createHash("sha256").update(JSON.stringify(data)).digest("hex").slice(0, 8)
Sha256Hex8(data) == data.sha

\* lines 34-42 and 70-78: the three-digit suffix
HashSuffix(data) == padStart(NatToString(HexMod(Sha256Hex8(data), 1000)), 3, "0")

\* s.slice(-2)
LastTwo(s) == IF Len(s) <= 2 THEN s ELSE SubSeq(s, Len(s) - 1, Len(s))

\* lines 28-45, with `now` the value of new Date(): [year, month (1..12)]
generateInvoiceNumber(data, now) ==
    LET year  == LastTwo(NatToString(now.year))
        month == padStart(NatToString(now.month), 2, "0")
    IN  year \o month \o <<"-">> \o HashSuffix(data)

\* filePath.split('/').pop() || ''
RECURSIVE BaseName(_)
BaseName(path) ==
    IF \E i \in DOMAIN path : path[i] = "/"
    THEN BaseName(Tail(path))
    ELSE path

\* filename.match(/^(\d{4})-(\d{2})/) succeeds
MatchesYearMonth(filename) ==
    /\ Len(filename) >= 7
    /\ \A i \in {1, 2, 3, 4, 6, 7} : IsDigit(filename[i])
    /\ filename[5] = "-"

\* if (invoiceData.number): the member is present and not the empty string
HasNumber(data) == data.number.present /\ data.number.text # <<>>

\* a variant that matches the pattern against the whole path
generateInvoiceNumberFromFile_WholePath(filePath, data, now) ==
    IF HasNumber(data) THEN data.number.text
    ELSE IF ~MatchesYearMonth(filePath) THEN generateInvoiceNumber(data, now)
    ELSE SubSeq(filePath, 3, 4) \o SubSeq(filePath, 6, 7) \o <<"-">> \o HashSuffix(data)

\* a variant that looks at the file name before the explicit number
generateInvoiceNumberFromFile_NameFirst(filePath, data, now) ==
    LET filename == BaseName(filePath)
    IN  IF MatchesYearMonth(filename)
        THEN LastTwo(SubSeq(filename, 1, 4)) \o SubSeq(filename, 6, 7)
                 \o <<"-">> \o HashSuffix(data)
        ELSE IF HasNumber(data) THEN data.number.text
        ELSE generateInvoiceNumber(data, now)

generateInvoiceNumberFromFile(filePath, data, now) ==
    IF HasNumber(data) THEN data.number.text
    ELSE LET filename == BaseName(filePath)
         IN  IF ~MatchesYearMonth(filename) THEN generateInvoiceNumber(data, now)
             ELSE LET year  == LastTwo(SubSeq(filename, 1, 4))
                      month == SubSeq(filename, 6, 7)
                  IN  year \o month \o <<"-">> \o HashSuffix(data)

\* part_000:68-74: the number the invoice generator prints
GeneratorNumber(inputFile, raw, now) ==
    IF HasNumber(raw) THEN raw.number.text
    ELSE generateInvoiceNumberFromFile(inputFile, raw, now)

\* part_001:192-193 and 40-68: the report of `year` reads the file; the
\* year argument is four digits
ListedForYear(file, year) ==
    /\ Len(year) = 4
    /\ \A i \in 1..4 : IsDigit(year[i])
    /\ Len(file) >= 10
    /\ SubSeq(file, 1, 5) = year \o <<"-">>
    /\ SubSeq(file, Len(file) - 4, Len(file)) = <<".", "j", "s", "o", "n">>

\* part_001:204, 221: the number the report lists for a file of its
\* invoices directory
ReportNumber(invoicesDir, file, data, now) ==
    generateInvoiceNumberFromFile(invoicesDir \o <<"/">> \o file, data, now)

(***************************************************************************)
(* parseISODate.  A Date is modelled by its UTC calendar day.              *)
(***************************************************************************)
\* /^\d{4}-\d{2}-\d{2}/.test(dateStr): a prefix test, there is no $ anchor
MatchesISODate(s) ==
    /\ Len(s) >= 10
    /\ \A i \in {1, 2, 3, 4, 6, 7, 9, 10} : IsDigit(s[i])
    /\ s[5] = "-"
    /\ s[8] = "-"

\* dateStr.split('-'): the pieces between hyphens
RECURSIVE SplitHyphen(_, _)
SplitHyphen(s, piece) ==
    IF s = <<>> THEN <<piece>>
    ELSE IF Head(s) = "-" THEN <<piece>> \o SplitHyphen(Tail(s), <<>>)
    ELSE SplitHyphen(Tail(s), piece \o <<Head(s)>>)

\* parseInt(num, 10) of a text that starts with a digit: its leading digits
RECURSIVE ParseIntFrom(_, _)
ParseIntFrom(s, acc) ==
    IF s = <<>> \/ ~IsDigit(Head(s)) THEN acc
    ELSE ParseIntFrom(Tail(s), acc * 10 + (IndexOf(DigitChars, Head(s)) - 1))

parseInt(s) == ParseIntFrom(s, 0)

IsLeapYear(y) == (y % 4 = 0 /\ y % 100 # 0) \/ y % 400 = 0

DaysInMonth(y, m) ==
    IF m = 2 THEN (IF IsLeapYear(y) THEN 29 ELSE 28)
    ELSE IF m \in {4, 6, 9, 11} THEN 30
    ELSE 31

\* the calendar day that is `d` days after the last day of the month before
\* month m (1..12) of year y; d may lie outside that month
RECURSIVE RollDays(_, _, _)
RollDays(y, m, d) ==
    IF d < 1
    THEN LET py == IF m = 1 THEN y - 1 ELSE y
             pm == IF m = 1 THEN 12 ELSE m - 1
         IN  RollDays(py, pm, d + DaysInMonth(py, pm))
    ELSE IF d > DaysInMonth(y, m)
    THEN RollDays(IF m = 12 THEN y + 1 ELSE y, IF m = 12 THEN 1 ELSE m + 1,
                  d - DaysInMonth(y, m))
    ELSE [year |-> y, month |-> m, day |-> d]

\* new Date(Date.UTC(year, monthIndex, day)): out-of-range fields carry over
DateUTC(year, monthIndex, day) ==
    RollDays(year + (monthIndex \div 12), (monthIndex % 12) + 1, day)

NoDate == [year |-> 0, month |-> 0, day |-> 0]

\* new Date(dateStr) for the strings of the model that fail the pattern:
\* the engine reads "March 15, 2025"; every other one is an Invalid Date
EngineParsedDates ==
    {<<<<"M", "a", "r", "c", "h", " ", "1", "5", ",", " ", "2", "0", "2", "5">>,
       [year |-> 2025, month |-> 3, day |-> 15]>>}

NewDate(dateStr) ==
    IF \E e \in EngineParsedDates : e[1] = dateStr
    THEN [valid |-> TRUE, value |-> (CHOOSE e \in EngineParsedDates : e[1] = dateStr)[2]]
    ELSE [valid |-> FALSE, value |-> NoDate]

parseISODate(dateStr) ==
    IF MatchesISODate(dateStr)
    THEN LET parts == SplitHyphen(dateStr, <<>>)
             year  == parseInt(parts[1])
             month == parseInt(parts[2])
             day   == parseInt(parts[3])
         IN  [status |-> "returned", value |-> DateUTC(year, month - 1, day)]
    ELSE LET date == NewDate(dateStr)
         IN  IF ~date.valid THEN [status |-> "threw", value |-> NoDate]
             ELSE [status |-> "returned", value |-> date.value]

(***************************************************************************)
(* The report generator (src/unnamed/part_001): the aggregation            *)
(*                                                                         *)
(* An invoice read from a file (ProcessedInvoice) carries the month taken  *)
(* from the file name and, of its JSON data, the debtor name, the currency *)
(* ("" when the member is absent), the item amounts, the VAT rate and the  *)
(* creditor's name and uid.                                                *)
(***************************************************************************)
Hundred == Fin(100, 1)

\* data.currency || 'CHF'
CurrencyOf(invoice) == IF invoice.currency = "" THEN "CHF" ELSE invoice.currency

\* lines 276-279: the sum of the item amounts
RECURSIVE SumItems(_)
SumItems(items) ==
    IF items = <<>> THEN Zero
    ELSE Add(SumItems(SubSeq(items, 1, Len(items) - 1)), items[Len(items)])

\* a variant that never adds VAT
InvoiceTotal_NoVat(invoice) == SumItems(invoice.items)

\* lines 275-284: the invoice total, VAT added when data.vatRate is truthy
InvoiceTotal(invoice) ==
    LET subtotal == SumItems(invoice.items)
    IN  IF Truthy(invoice.vatRate)
        THEN Add(subtotal, Mul(subtotal, Div(invoice.vatRate, Hundred)))
        ELSE subtotal

\* a variant that never converts
InvoiceTotalCHF_Unconverted(invoice, rates) == InvoiceTotal(invoice)

\* lines 287-296: the total in CHF; a failed conversion is caught, logged
\* and leaves the total as it is (1:1)
InvoiceTotalCHF(invoice, rates) ==
    LET invoiceTotal == InvoiceTotal(invoice)
        currency     == CurrencyOf(invoice)
    IN  IF currency # "CHF"
        THEN LET converted == convertCurrency(invoiceTotal, currency, "CHF", rates)
             IN  IF converted.status = "threw" THEN invoiceTotal ELSE converted.value
        ELSE invoiceTotal

\* lines 289-295: the conversion threw and the warning was logged
ConversionFailed(invoice, rates) ==
    /\ CurrencyOf(invoice) # "CHF"
    /\ convertCurrency(InvoiceTotal(invoice), CurrencyOf(invoice), "CHF", rates).status
           = "threw"

\* obj[key] = value on a map with string keys
Put(map, key, value) ==
    [x \in DOMAIN map \cup {key} |-> IF x = key THEN value ELSE map[x]]

EmptyMap == [x \in {} |-> Zero]

\* map[key] || 0
GetOrZero(map, key) ==
    IF key \in DOMAIN map /\ Truthy(map[key]) THEN map[key] ELSE Zero

\* new Date(Date.UTC(parseInt(year), monthIndex, 1)).toISOString().split('T')[0]
ISODateOf(year, month) ==
    LET date == DateUTC(parseInt(year), parseInt(month) - 1, 1)
    IN  padStart(NatToString(date.year), 4, "0") \o <<"-">>
            \o padStart(NatToString(date.month), 2, "0") \o <<"-">>
            \o padStart(NatToString(date.day), 2, "0")

EmptyReport ==
    [totalRevenue |-> EmptyMap, totalRevenueCHF |-> Zero,
     monthlyRevenue |-> EmptyMap, clientSummary |-> EmptyMap, invoices |-> <<>>]

\* lines 298-319: the month bucket after the invoice
MonthAfter(acc, month, currency, invoiceTotal, invoiceTotalCHF) ==
    LET old == IF month \in DOMAIN acc.monthlyRevenue
               THEN acc.monthlyRevenue[month]
               ELSE [total |-> Zero, totalCHF |-> Zero, byCurrency |-> EmptyMap]
    IN  [total |-> Add(old.total, invoiceTotal),
         totalCHF |-> Add(old.totalCHF, invoiceTotalCHF),
         byCurrency |-> Put(old.byCurrency, currency,
                            Add(GetOrZero(old.byCurrency, currency), invoiceTotal))]

\* a variant that assigns the currency on every invoice
ClientAfter_Overwrite(acc, client, currency, invoiceTotal, invoiceTotalCHF) ==
    LET old == IF client \in DOMAIN acc.clientSummary
               THEN acc.clientSummary[client]
               ELSE [totalBilled |-> Zero, totalBilledCHF |-> Zero,
                     invoiceCount |-> 0, currency |-> currency]
    IN  [totalBilled |-> Add(old.totalBilled, invoiceTotal),
         totalBilledCHF |-> Add(old.totalBilledCHF, invoiceTotalCHF),
         invoiceCount |-> old.invoiceCount + 1,
         currency |-> currency]

\* a variant that counts the invoice that creates the entry only
ClientAfter_CountFirst(acc, client, currency, invoiceTotal, invoiceTotalCHF) ==
    LET old == IF client \in DOMAIN acc.clientSummary
               THEN acc.clientSummary[client]
               ELSE [totalBilled |-> Zero, totalBilledCHF |-> Zero,
                     invoiceCount |-> 0, currency |-> currency]
    IN  [totalBilled |-> Add(old.totalBilled, invoiceTotal),
         totalBilledCHF |-> Add(old.totalBilledCHF, invoiceTotalCHF),
         invoiceCount |-> 1,
         currency |-> old.currency]

\* lines 321-332: the client entry after the invoice; its currency is set
\* when the entry is created and not assigned again
ClientAfter(acc, client, currency, invoiceTotal, invoiceTotalCHF) ==
    LET old == IF client \in DOMAIN acc.clientSummary
               THEN acc.clientSummary[client]
               ELSE [totalBilled |-> Zero, totalBilledCHF |-> Zero,
                     invoiceCount |-> 0, currency |-> currency]
    IN  [totalBilled |-> Add(old.totalBilled, invoiceTotal),
         totalBilledCHF |-> Add(old.totalBilledCHF, invoiceTotalCHF),
         invoiceCount |-> old.invoiceCount + 1,
         currency |-> old.currency]

\* lines 269-346: the body of invoices.forEach for one invoice
AggregateOne(acc, invoice, year, rates) ==
    LET currency        == CurrencyOf(invoice)
        invoiceTotal    == InvoiceTotal(invoice)
        invoiceTotalCHF == InvoiceTotalCHF(invoice, rates)
    IN  [totalRevenue |->
             Put(acc.totalRevenue, currency,
                 Add(GetOrZero(acc.totalRevenue, currency), invoiceTotal)),
         totalRevenueCHF |-> Add(acc.totalRevenueCHF, invoiceTotalCHF),
         monthlyRevenue |->
             Put(acc.monthlyRevenue, invoice.month,
                 MonthAfter(acc, invoice.month, currency, invoiceTotal, invoiceTotalCHF)),
         clientSummary |->
             Put(acc.clientSummary, invoice.client,
                 ClientAfter(acc, invoice.client, currency, invoiceTotal, invoiceTotalCHF)),
         invoices |->
             Append(acc.invoices,
                    [client |-> invoice.client, month |-> invoice.month,
                     date |-> ISODateOf(year, invoice.month),
                     amount |-> invoiceTotal, amountCHF |-> invoiceTotalCHF,
                     currency |-> currency, items |-> Len(invoice.items)])]

\* a.localeCompare(b) < 0 for texts of digits and hyphens
RECURSIVE TextLess(_, _)
TextLess(a, b) ==
    IF b = <<>> THEN FALSE
    ELSE IF a = <<>> THEN TRUE
    ELSE IF Head(a) = Head(b) THEN TextLess(Tail(a), Tail(b))
    ELSE charCodeAt(Head(a)) < charCodeAt(Head(b))

\* Math.ceil(parseInt(month) / 3) for a month that starts with a digit
QuarterOfMonth(month) == (parseInt(month) + 2) \div 3

\* part_001:516-519: the months of the report in the quarter; parseInt of a
\* month without a leading digit is NaN, which is in no quarter
QuarterMonths(acc, quarterIndex) ==
    {month \in DOMAIN acc.monthlyRevenue :
        /\ IsDigit(Head(month))
        /\ QuarterOfMonth(month) = quarterIndex}

\* part_001:520: quarterMonths.reduce((sum, month) => sum + totalCHF, 0)
RECURSIVE SumTotalCHF(_, _)
SumTotalCHF(acc, months) ==
    IF months = {} THEN Zero
    ELSE LET month == CHOOSE m \in months : \A other \in months : ~TextLess(other, m)
         IN  Add(acc.monthlyRevenue[month].totalCHF, SumTotalCHF(acc, months \ {month}))

\* part_001:523-528: the byCurrency maps of the months merged by addition
RECURSIVE MergeByCurrency(_, _)
MergeByCurrency(acc, months) ==
    IF months = {} THEN EmptyMap
    ELSE LET month == CHOOSE m \in months : \A other \in months : ~TextLess(other, m)
             rest  == MergeByCurrency(acc, months \ {month})
             here  == acc.monthlyRevenue[month].byCurrency
         IN  [c \in DOMAIN rest \cup DOMAIN here |->
                 Add(GetOrZero(here, c), GetOrZero(rest, c))]

\* a variant that leaves no quarter out
RowPresent_Always(year, quarterIndex, now) == TRUE

\* part_001:506-514: the row of a quarter after the current quarter of
\* the current year is left out
RowPresent(year, quarterIndex, now) ==
    ~(parseInt(year) = now.year /\ quarterIndex > (now.month + 2) \div 3)

\* part_001:474, 504-544: the row of a quarter; with more than one
\* currency in totalRevenue it shows the currency sums (or "none") and the
\* CHF figure, otherwise the currency sums or, without any, the CHF figure
QuarterRow(acc, quarterIndex) ==
    LET quarterMonths == QuarterMonths(acc, quarterIndex)
        quarterRevenue == SumTotalCHF(acc, quarterMonths)
        currencySums == MergeByCurrency(acc, quarterMonths)
        hasMultipleCurrencies == Cardinality(DOMAIN acc.totalRevenue) > 1
    IN  [quarter |-> quarterIndex,
         quarterRevenue |-> quarterRevenue,
         currencySums |-> currencySums,
         original |-> IF DOMAIN currencySums # {} THEN "sums"
                      ELSE IF hasMultipleCurrencies THEN "none" ELSE "absent",
         chfShown |-> hasMultipleCurrencies \/ DOMAIN currencySums = {}]

\* Array.from({length: 4}, ...).filter(Boolean): the rows in quarter order
QuarterlyRows(acc, year, now) ==
    LET present == {quarterIndex \in 1..4 : RowPresent(year, quarterIndex, now)}
        Rows[q \in 0..4] ==
            IF q = 0 THEN <<>>
            ELSE IF q \in present THEN Append(Rows[q - 1], QuarterRow(acc, q))
            ELSE Rows[q - 1]
    IN  Rows[4]

NoMarkdown == [now |-> [year |-> 0, month |-> 0], rows |-> <<>>]

\* a variant that puts an entry before the entries of its date
RECURSIVE SortByDate_Unstable(_)
SortByDate_Unstable(list) ==
    IF list = <<>> THEN <<>>
    ELSE LET sorted == SortByDate_Unstable(SubSeq(list, 1, Len(list) - 1))
             last   == list[Len(list)]
             keep   == {i \in DOMAIN sorted : TextLess(sorted[i].date, last.date)}
             n      == Cardinality(keep)
         IN  SubSeq(sorted, 1, n) \o <<last>> \o SubSeq(sorted, n + 1, Len(sorted))

\* line 349: Array.prototype.sort by date; the sort is stable
RECURSIVE SortByDate(_)
SortByDate(list) ==
    IF list = <<>> THEN <<>>
    ELSE LET sorted == SortByDate(SubSeq(list, 1, Len(list) - 1))
             last   == list[Len(list)]
             keep   == {i \in DOMAIN sorted : ~TextLess(last.date, sorted[i].date)}
             n      == Cardinality(keep)
         IN  SubSeq(sorted, 1, n) \o <<last>> \o SubSeq(sorted, n + 1, Len(sorted))

\* a variant that compares the names only
CreditorMismatch_NameOnly(list) ==
    /\ Len(list) > 1
    /\ \E i \in 2..Len(list) : list[i].creditor.name # list[1].creditor.name

\* lines 233-254: some invoice's creditor name or uid differs from the first's
CreditorMismatch(list) ==
    /\ Len(list) > 1
    /\ \E i \in 2..Len(list) :
          \/ list[i].creditor.name # list[1].creditor.name
          \/ list[i].creditor.uid # list[1].creditor.uid

(***************************************************************************)
(* The CHF accumulators in IEEE 754 double precision                       *)
(*                                                                         *)
(* The rationals above add exactly; a JavaScript number is a double and    *)
(* += rounds its result to 53 significant bits (round to nearest, ties to  *)
(* even).  Here a positive double is m * 2^e with a mantissa m of exactly  *)
(* 53 bits, and 0 has the mantissa 0.                                      *)
(* Neither overflow nor subnormal numbers occur for the amounts of the     *)
(* model.                                                                  *)
(***************************************************************************)
MantissaBits == 53

\* natural numbers beyond 32 bits: limbs of LimbBits bits, lowest first,
\* without leading zero limbs; 0 is the empty sequence
LimbBits == 15

LimbBase == 2 ^ LimbBits

RECURSIVE Canon(_)
Canon(n) ==
    IF n # <<>> /\ n[Len(n)] = 0 THEN Canon(SubSeq(n, 1, Len(n) - 1)) ELSE n

RECURSIVE AddLimbs(_, _, _)
AddLimbs(a, b, carry) ==
    IF a = <<>> /\ b = <<>> THEN (IF carry = 0 THEN <<>> ELSE <<carry>>)
    ELSE LET s == (IF a = <<>> THEN 0 ELSE Head(a))
                      + (IF b = <<>> THEN 0 ELSE Head(b)) + carry
         IN  <<s % LimbBase>>
                 \o AddLimbs(IF a = <<>> THEN a ELSE Tail(a),
                             IF b = <<>> THEN b ELSE Tail(b), s \div LimbBase)

\* a + b
AddNat(a, b) == AddLimbs(a, b, 0)

\* n * 2^k
ShiftLeft(n, k) ==
    LET r == k % LimbBits
        shifted == [i \in 1..(Len(n) + 1) |->
                       (((IF i <= Len(n) THEN n[i] ELSE 0) * (2 ^ r)) % LimbBase)
                           + (IF i > 1 THEN n[i - 1] \div (2 ^ (LimbBits - r)) ELSE 0)]
    IN  IF n = <<>> THEN <<>>
        ELSE [i \in 1..(k \div LimbBits) |-> 0] \o Canon(shifted)

\* n \div 2^k
ShiftRight(n, k) ==
    LET q == k \div LimbBits
        r == k % LimbBits
        rest == IF q >= Len(n) THEN <<>> ELSE SubSeq(n, q + 1, Len(n))
    IN  Canon([i \in 1..Len(rest) |->
                  (rest[i] \div (2 ^ r))
                      + (IF i < Len(rest)
                         THEN (rest[i + 1] % (2 ^ r)) * (2 ^ (LimbBits - r))
                         ELSE 0)])

\* n % 2^k
LowBits(n, k) ==
    LET q == k \div LimbBits
        r == k % LimbBits
        last == IF Len(n) <= q THEN Len(n) ELSE q + 1
    IN  Canon([i \in 1..last |-> IF i <= q THEN n[i] ELSE n[i] % (2 ^ r)])

\* the number of bits of n
BitLength(n) ==
    IF n = <<>> THEN 0
    ELSE (Len(n) - 1) * LimbBits
             + (CHOOSE k \in 1..LimbBits :
                    2 ^ (k - 1) <= n[Len(n)] /\ n[Len(n)] < 2 ^ k)

\* x + y without rounding, for dyadic numbers m * 2^e
ExactAdd(x, y) ==
    IF x.m = <<>> THEN y
    ELSE IF y.m = <<>> THEN x
    ELSE LET e == IF x.e < y.e THEN x.e ELSE y.e
         IN  [m |-> AddNat(ShiftLeft(x.m, x.e - e), ShiftLeft(y.m, y.e - e)),
              e |-> e]

\* the double nearest to the dyadic number x, ties to even, with a
\* mantissa of exactly MantissaBits bits
RoundToDouble(x) ==
    LET len  == BitLength(x.m)
        drop == len - MantissaBits
        q    == ShiftRight(x.m, drop)
        r    == LowBits(x.m, drop)
        up   == /\ BitLength(r) = drop
                /\ (LowBits(r, drop - 1) # <<>> \/ q[1] % 2 = 1)
        q1   == IF up THEN AddNat(q, <<1>>) ELSE q
    IN  IF x.m = <<>> THEN [m |-> <<>>, e |-> 0]
        ELSE IF len <= MantissaBits
             THEN [m |-> ShiftLeft(x.m, MantissaBits - len),
                   e |-> x.e - (MantissaBits - len)]
        ELSE IF BitLength(q1) > MantissaBits
             THEN [m |-> ShiftRight(q1, 1), e |-> x.e + drop + 1]
        ELSE [m |-> q1, e |-> x.e + drop]

\* x + y on doubles
DoubleAdd(x, y) == RoundToDouble(ExactAdd(x, y))

\* the addition x + y is rounded
AddRounds(x, y) ==
    LET sum == ExactAdd(x, y).m
    IN  /\ BitLength(sum) > MantissaBits
        /\ LowBits(sum, BitLength(sum) - MantissaBits) # <<>>

DoubleZero == [m |-> <<>>, e |-> 0]

\* lines 276-279 on doubles: the sum of the item amounts and whether an
\* addition of it rounded
RECURSIVE DoubleSumItems(_)
DoubleSumItems(items) ==
    IF items = <<>> THEN [value |-> DoubleZero, rounded |-> FALSE]
    ELSE LET front == DoubleSumItems(SubSeq(items, 1, Len(items) - 1))
             last  == items[Len(items)]
         IN  [value |-> DoubleAdd(front.value, last),
              rounded |-> front.rounded \/ AddRounds(front.value, last)]

\* map[key], or 0 for a bucket created by this invoice
DoubleGet(map, key) == IF key \in DOMAIN map THEN map[key] ELSE DoubleZero

NoTotals ==
    [count |-> 0, totalRevenueCHF |-> DoubleZero, clientCHF |-> EmptyMap,
     monthCHF |-> EmptyMap, rounded |-> FALSE, fellBack |-> FALSE]

\* a variant that leaves the client bucket alone when the conversion failed
AccumulateCHF_SkipFallback(acc, invoice, rates) ==
    LET subtotal == DoubleSumItems(invoice.items)
        currency == CurrencyOf(invoice)
        failed   == /\ currency # "CHF"
                    /\ convertCurrency(subtotal.value, currency, "CHF", rates).status
                           = "threw"
        invoiceTotalCHF == subtotal.value
    IN  [count |-> acc.count + 1,
         totalRevenueCHF |-> DoubleAdd(acc.totalRevenueCHF, invoiceTotalCHF),
         clientCHF |-> IF failed THEN acc.clientCHF
                       ELSE Put(acc.clientCHF, invoice.client,
                                DoubleAdd(DoubleGet(acc.clientCHF, invoice.client),
                                          invoiceTotalCHF)),
         monthCHF |-> Put(acc.monthCHF, invoice.month,
                          DoubleAdd(DoubleGet(acc.monthCHF, invoice.month),
                                    invoiceTotalCHF)),
         rounded |-> acc.rounded,
         fellBack |-> acc.fellBack \/ failed]

\* lines 275-332 on doubles, for an invoice without VAT that is in CHF or
\* whose conversion fails: the CHF total is the invoice total and is added
\* to totalRevenueCHF, to the month's totalCHF and to the client's
\* totalBilledCHF
AccumulateCHF(acc, invoice, rates) ==
    LET subtotal == DoubleSumItems(invoice.items)
        currency == CurrencyOf(invoice)
        failed   == /\ currency # "CHF"
                    /\ convertCurrency(subtotal.value, currency, "CHF", rates).status
                           = "threw"
        invoiceTotalCHF == subtotal.value
        oldClient == DoubleGet(acc.clientCHF, invoice.client)
        oldMonth  == DoubleGet(acc.monthCHF, invoice.month)
    IN  [count |-> acc.count + 1,
         totalRevenueCHF |-> DoubleAdd(acc.totalRevenueCHF, invoiceTotalCHF),
         clientCHF |-> Put(acc.clientCHF, invoice.client,
                           DoubleAdd(oldClient, invoiceTotalCHF)),
         monthCHF |-> Put(acc.monthCHF, invoice.month,
                          DoubleAdd(oldMonth, invoiceTotalCHF)),
         rounded |-> \/ acc.rounded
                     \/ subtotal.rounded
                     \/ AddRounds(acc.totalRevenueCHF, invoiceTotalCHF)
                     \/ AddRounds(oldClient, invoiceTotalCHF)
                     \/ AddRounds(oldMonth, invoiceTotalCHF),
         fellBack |-> acc.fellBack \/ failed]

NoNative ==
    [totalRevenue |-> EmptyMap, monthTotal |-> EmptyMap, byCurrency |-> EmptyMap,
     rounded |-> FALSE]

\* a variant that books every invoice under CHF in the month's byCurrency
AccumulateNative_AllCHF(acc, invoice) ==
    LET subtotal == DoubleSumItems(invoice.items)
        currency == CurrencyOf(invoice)
        month    == invoice.month
        oldBy    == IF month \in DOMAIN acc.byCurrency
                    THEN acc.byCurrency[month] ELSE EmptyMap
    IN  [totalRevenue |-> Put(acc.totalRevenue, currency,
                              DoubleAdd(DoubleGet(acc.totalRevenue, currency),
                                        subtotal.value)),
         monthTotal |-> Put(acc.monthTotal, month,
                            DoubleAdd(DoubleGet(acc.monthTotal, month), subtotal.value)),
         byCurrency |-> Put(acc.byCurrency, month,
                            Put(oldBy, "CHF",
                                DoubleAdd(DoubleGet(oldBy, "CHF"), subtotal.value))),
         rounded |-> acc.rounded]

\* lines 272-319 on doubles, for an invoice without VAT: the invoice total
\* is added to totalRevenue[currency], to the month's total and to the
\* month's byCurrency[currency]
AccumulateNative(acc, invoice) ==
    LET subtotal == DoubleSumItems(invoice.items)
        currency == CurrencyOf(invoice)
        month    == invoice.month
        oldTotal == DoubleGet(acc.totalRevenue, currency)
        oldMonth == DoubleGet(acc.monthTotal, month)
        oldBy    == IF month \in DOMAIN acc.byCurrency
                    THEN acc.byCurrency[month] ELSE EmptyMap
    IN  [totalRevenue |-> Put(acc.totalRevenue, currency,
                              DoubleAdd(oldTotal, subtotal.value)),
         monthTotal |-> Put(acc.monthTotal, month,
                            DoubleAdd(oldMonth, subtotal.value)),
         byCurrency |-> Put(acc.byCurrency, month,
                            Put(oldBy, currency,
                                DoubleAdd(DoubleGet(oldBy, currency), subtotal.value))),
         rounded |-> \/ acc.rounded
                     \/ AddRounds(oldTotal, subtotal.value)
                     \/ AddRounds(oldMonth, subtotal.value)
                     \/ AddRounds(DoubleGet(oldBy, currency), subtotal.value)]

(***************************************************************************)
(* Bounds and inputs                                                       *)
(***************************************************************************)
MaxRefLen == 3

RefChars == {"A", "a", "z", "1", "0", "-"}

RECURSIVE StringsUpTo(_, _)
StringsUpTo(chars, n) ==
    IF n = 0 THEN {<<>>}
    ELSE LET shorter == StringsUpTo(chars, n - 1)
         IN  shorter \cup {<<c>> \o s : c \in chars, s \in {t \in shorter : Len(t) = n - 1}}

InvoiceNumbers == StringsUpTo(RefChars, MaxRefLen)

Currencies == {"CHF", "EUR", "USD"}

\* rates a service response can carry: 0, 1/2, 20/21, 2 and 1e999, which
\* JSON.parse reads as Infinity
ServiceValues == {Zero, Fin(1, 2), Fin(20, 21), Fin(2, 1), Inf(1)}

ServiceRates == UNION {[S -> ServiceValues] : S \in SUBSET Currencies}

Responses ==
    {[kind |-> k, rates |-> NoRates] : k \in {"error", "garbage", "norates"}}
        \cup {[kind |-> "rates", rates |-> r] : r \in ServiceRates}

Amounts == {Zero, One, Fin(100, 1), Fin(-5, 2)}

\* invoice documents, each with the JSON.stringify text it stands for
InvoiceDocuments == {
    \* {"debtor":{"name":"Acme"},"items":[{"description":"Work","amount":100}],"vatRate":null}
    [number |-> [present |-> FALSE, text |-> <<>>],
     sha |-> <<"d", "1", "1", "3", "1", "e", "5", "1">>],
    \* {"debtor":{"name":"Acme"},"items":[{"description":"Work","amount":100}],"vatRate":null,"currency":"EUR"}
    [number |-> [present |-> FALSE, text |-> <<>>],
     sha |-> <<"3", "1", "d", "b", "b", "5", "8", "5">>],
    \* {"number":"","debtor":{"name":"Acme"},"items":[{"description":"Work","amount":100}],"vatRate":null}
    [number |-> [present |-> TRUE, text |-> <<>>],
     sha |-> <<"f", "3", "8", "d", "d", "1", "1", "9">>],
    \* {"number":"INV-7","debtor":{"name":"Acme"},"items":[{"description":"Work","amount":100}],"vatRate":null}
    [number |-> [present |-> TRUE, text |-> <<"I", "N", "V", "-", "7">>],
     sha |-> <<"2", "d", "e", "4", "7", "0", "e", "f">>],
    \* {"number":"","debtor":{"name":"Acme"},"items":[{"description":"Work","amount":50}],"vatRate":null}
    [number |-> [present |-> TRUE, text |-> <<>>],
     sha |-> <<"0", "9", "5", "f", "d", "f", "3", "0">>],
    \* {"debtor":{"name":"Acme"},"items":[{"description":"Work","amount":100}],"vatRate":null,"currency":"USD"}
    [number |-> [present |-> FALSE, text |-> <<>>],
     sha |-> <<"f", "e", "5", "5", "f", "f", "b", "7">>]
}

FilePaths == {
    \* 2025-03-acme.json
    <<"2", "0", "2", "5", "-", "0", "3", "-", "a", "c", "m", "e", ".", "j", "s", "o", "n">>,
    \* invoices/2025-03-acme.json
    <<"i", "n", "v", "o", "i", "c", "e", "s", "/", "2", "0", "2", "5", "-", "0", "3", "-", "a", "c", "m", "e", ".", "j", "s", "o", "n">>,
    \* /data/2024-11/acme.json
    <<"/", "d", "a", "t", "a", "/", "2", "0", "2", "4", "-", "1", "1", "/", "a", "c", "m", "e", ".", "j", "s", "o", "n">>,
    \* acme.json
    <<"a", "c", "m", "e", ".", "j", "s", "o", "n">>,
    \* 2025-3-acme.json
    <<"2", "0", "2", "5", "-", "3", "-", "a", "c", "m", "e", ".", "j", "s", "o", "n">>,
    \* /x/1999-12.json
    <<"/", "x", "/", "1", "9", "9", "9", "-", "1", "2", ".", "j", "s", "o", "n">>
}

\* values of new Date(): the year and the month (getMonth() + 1)
Clocks == [year : {2026, 2031}, month : {3, 11}]

\* the files of the invoices directory: the base names of the paths
InvoiceFileNames == {BaseName(path) : path \in FilePaths}

\* the directory the generator is given the file in, relative or absolute
InputDirs == {<<>>, <<"i", "n", "v", "o", "i", "c", "e", "s", "/">>}

\* path.resolve of the report's invoices directory
InvoicesDir == <<"/", "d", "a", "t", "a", "/", "i", "n", "v", "o", "i", "c", "e", "s">>

\* the year argument of a report run
ReportYears == {<<"2", "0", "2", "5">>, <<"1", "9", "9", "9">>}

NoPair ==
    [pc |-> "none", file |-> <<>>,
     data |-> [number |-> [present |-> FALSE, text |-> <<>>], sha |-> <<>>],
     printedAt |-> [year |-> 0, month |-> 0], printed |-> <<>>,
     listedAt |-> [year |-> 0, month |-> 0], listed |-> <<>>]

\* the most diagrams a Markdown file of the model holds
MaxDiagrams == 3

\* mermaid-to-png before it has started
NoRun ==
    [pc |-> "start", keepTemp |-> FALSE, extract |-> FALSE, markdownName |-> FALSE,
     tempDir |-> "none", diagrams |-> 0, i |-> 0, successCount |-> 0,
     warned |-> FALSE, exitCode |-> -1]

NoNumberCall ==
    [called |-> FALSE, filePath |-> <<>>,
     data |-> [number |-> [present |-> FALSE, text |-> <<>>], sha |-> <<>>],
     now |-> [year |-> 0, month |-> 0], out |-> <<>>]

\* the date member of an invoice document: absent, or one of these texts
DateStrings == {
    \* 2025-03-15
    <<"2", "0", "2", "5", "-", "0", "3", "-", "1", "5">>,
    \* 2024-02-29
    <<"2", "0", "2", "4", "-", "0", "2", "-", "2", "9">>,
    \* 2025-13-45
    <<"2", "0", "2", "5", "-", "1", "3", "-", "4", "5">>,
    \* 2025-02-30
    <<"2", "0", "2", "5", "-", "0", "2", "-", "3", "0">>,
    \* 2025-00-10
    <<"2", "0", "2", "5", "-", "0", "0", "-", "1", "0">>,
    \* 2025-03-15T10:00:00Z
    <<"2", "0", "2", "5", "-", "0", "3", "-", "1", "5", "T", "1", "0", ":", "0", "0", ":", "0", "0", "Z">>,
    \* 15.03.2025
    <<"1", "5", ".", "0", "3", ".", "2", "0", "2", "5">>,
    \* foo
    <<"f", "o", "o">>,
    \* March 15, 2025
    <<"M", "a", "r", "c", "h", " ", "1", "5", ",", " ", "2", "0", "2", "5">>
}

RawDates ==
    {[present |-> FALSE, text |-> <<>>]}
        \cup {[present |-> TRUE, text |-> s] : s \in DateStrings}

NotRun ==
    [pc |-> "loaded", filePath |-> <<>>,
     data |-> [number |-> [present |-> FALSE, text |-> <<>>], sha |-> <<>>],
     rawDate |-> [present |-> FALSE, text |-> <<>>],
     number |-> <<>>, reference |-> <<>>,
     date |-> [status |-> "none", value |-> NoDate], pdf |-> FALSE]

\* the year argument of a report run
ReportYear == <<"2", "0", "2", "4">>

\* what the exchange-rate service answers to a report run: a failure, the
\* EUR rate alone (1 EUR = 1.05 CHF), or the EUR and USD rates
ReportResponses ==
    {[kind |-> k, rates |-> NoRates] : k \in {"error", "garbage", "norates"}}
        \cup {[kind |-> "rates", rates |-> [c \in {"EUR"} |-> Fin(20, 21)]],
              [kind |-> "rates",
               rates |-> [c \in {"EUR", "USD"} |->
                             IF c = "EUR" THEN Fin(20, 21) ELSE Fin(5, 4)]]}

Months == {<<"0", "1">>, <<"0", "4">>}

\* the two characters after "2024-" in a file name that are no month
OddMonths == {<<"1", "3">>, <<"a", "b">>}

\* the clock of a run: in the second quarter of the report year, or two
\* years later
ReportClocks == {[year |-> 2024, month |-> 5], [year |-> 2026, month |-> 11]}

Clients == {"Acme", "Bolt"}

Creditors ==
    {[name |-> "RaaS GmbH", uid |-> "CHE-1"],
     [name |-> "RaaS GmbH", uid |-> "CHE-2"],
     [name |-> "Other AG", uid |-> "CHE-1"]}

\* the invoice files of the year: every client, currency (absent, EUR, USD)
\* and amount (one item of 100, or items of 20 and 30) for the first
\* creditor in January without VAT; and the invoice of 100 CHF to Acme in
\* another month, with VAT rates, from the other creditors, with the
\* currency written "eur", and with one item of -50
InvoiceFiles ==
    LET base == [month |-> <<"0", "1">>, client |-> "Acme", currency |-> "",
                 items |-> <<Hundred>>, vatRate |-> Null,
                 creditor |-> [name |-> "RaaS GmbH", uid |-> "CHE-1"]]
    IN  {[base EXCEPT !.client = c, !.currency = cur, !.items = it] :
             c \in Clients, cur \in {"", "EUR", "USD"},
             it \in {<<Hundred>>, <<Fin(20, 1), Fin(30, 1)>>}}
        \cup {[base EXCEPT !.month = m] : m \in Months \cup OddMonths}
        \cup {[base EXCEPT !.vatRate = v] : v \in {Undefined, Zero, Fin(8, 1)}}
        \cup {[base EXCEPT !.creditor = cr] : cr \in Creditors}
        \cup {[base EXCEPT !.currency = "eur"], [base EXCEPT !.items = <<Fin(-50, 1)>>]}

\* the invoices of a run: the files of the year in the order readdirSync
\* lists them
MaxInvoices == 3

Listings == UNION {[1..n -> InvoiceFiles] : n \in 0..MaxInvoices}

Languages == {{"de", "en"}, {"de"}, {"en"}}

\* the value of a hexadecimal numeral
RECURSIVE HexToNat(_)
HexToNat(hex) ==
    IF hex = <<>> THEN <<>>
    ELSE AddNat(ShiftLeft(HexToNat(SubSeq(hex, 1, Len(hex) - 1)), 4),
                Canon(<<IndexOf(HexChars, hex[Len(hex)]) - 1>>))

\* the double hex * 2^e
Double(hex, e) == RoundToDouble([m |-> HexToNat(hex), e |-> e])

\* the doubles JSON.parse yields for the amounts 0.1, 0.2, 0.3, 50 and 100
Tenth == Double(<<"c", "c", "c", "c", "c", "c", "c", "c", "c", "c", "c", "c", "d">>, -55)

Fifth == Double(<<"c", "c", "c", "c", "c", "c", "c", "c", "c", "c", "c", "c", "d">>, -54)

ThreeTenths ==
    Double(<<"1", "3", "3", "3", "3", "3", "3", "3", "3", "3", "3", "3", "3", "3">>, -54)

DoubleAmounts == {Tenth, Fifth, ThreeTenths, Double(<<"3", "2">>, 0), Double(<<"6", "4">>, 0)}

\* invoices without VAT in CHF or in USD, of one item or of two
DoubleInvoices ==
    [month : Months, client : Clients, currency : {"", "USD"},
     items : {<<a>> : a \in DoubleAmounts} \cup {<<Tenth, Fifth>>}]

\* the table fetched when the service reports the EUR rate alone: it has
\* no USD entry
TableWithoutUSD == BuildRates([c \in {"EUR"} |-> Fin(20, 21)])

None == [status |-> "none", value |-> <<>>]

NoCall == [called |-> FALSE, amount |-> Zero, from |-> "", to |-> "", out |-> Threw]

(***************************************************************************)
(* The state machine                                                       *)
(***************************************************************************)
Init ==
    /\ invoiceNumber = <<>>
    /\ scor = None
    /\ fetch = [status |-> "pending", rates |-> NoRates]
    /\ conv = NoCall
    /\ back = NoCall
    /\ serviceResponse = [kind |-> "none", rates |-> NoRates]
    /\ numbering = NoNumberCall
    /\ gen = NotRun
    /\ step = "start"
    /\ fetchCalls = 0
    /\ exchangeRates = NoRates
    /\ invoices = <<>>
    /\ processed = 0
    /\ report = EmptyReport
    /\ warnings = 0
    /\ written = {}
    /\ markdown = NoMarkdown
    /\ exitCode = -1
    /\ totals = NoTotals
    /\ native = NoNative
    /\ billed = EmptyMap
    /\ pair = NoPair
    /\ mmd = NoRun

\* the invoice generator's one call of generateSCORReference: the function
\* has no throw statement and BigInt() is applied to a non-empty digit
\* string, so it always returns
CallGenerateSCORReference ==
    /\ scor.status = "none"
    /\ \E s \in InvoiceNumbers :
        /\ invoiceNumber' = s
        /\ scor' = [status |-> "returned", value |-> generateSCORReference(s)]
    /\ UNCHANGED <<fxVars, numVars, genVars, repVars, sumVars, pairVars, mmdVars>>

NextRef == CallGenerateSCORReference

SpecRef == Init /\ [][NextRef]_vars

\* the request of getOfficialExchangeRates ends and the promise settles
SettleFetch ==
    /\ fetch.status = "pending"
    /\ \E r \in Responses :
        /\ serviceResponse' = r
        /\ fetch' = getOfficialExchangeRates(r)
    /\ UNCHANGED <<refVars, numVars, genVars, repVars, sumVars, pairVars, mmdVars,
                   conv, back>>

\* a call of convertCurrency with the fetched table
CallConvertCurrency ==
    /\ fetch.status = "resolved"
    /\ ~conv.called
    /\ \E amount \in Amounts, from \in Currencies, to \in Currencies :
        conv' = [called |-> TRUE, amount |-> amount, from |-> from, to |-> to,
                 out |-> convertCurrency(amount, from, to, fetch.rates)]
    /\ UNCHANGED <<refVars, numVars, genVars, repVars, sumVars, pairVars, mmdVars,
                   fetch, back, serviceResponse>>

\* the result of that call converted back: convertCurrency(y, B, A, r)
CallConvertBack ==
    /\ conv.called
    /\ conv.out.status = "returned"
    /\ ~back.called
    /\ back' = [called |-> TRUE, amount |-> conv.out.value, from |-> conv.to,
                to |-> conv.from,
                out |-> convertCurrency(conv.out.value, conv.to, conv.from, fetch.rates)]
    /\ UNCHANGED <<refVars, numVars, genVars, repVars, sumVars, pairVars, mmdVars,
                   fetch, conv, serviceResponse>>

NextFx == SettleFetch \/ CallConvertCurrency \/ CallConvertBack

SpecFx == Init /\ [][NextFx]_vars

\* a call of generateInvoiceNumberFromFile (part_000:73, part_001:221) for
\* one invoice file, at one moment
CallGenerateInvoiceNumberFromFile ==
    /\ ~numbering.called
    /\ \E path \in FilePaths, data \in InvoiceDocuments, now \in Clocks :
        numbering' = [called |-> TRUE, filePath |-> path, data |-> data, now |-> now,
                      out |-> generateInvoiceNumberFromFile(path, data, now)]
    /\ UNCHANGED <<refVars, fxVars, genVars, repVars, sumVars, pairVars, mmdVars>>

NextNum == CallGenerateInvoiceNumberFromFile

\* the invoice generator is run on an invoice file and prints its number
\* (part_000:64-89)
GeneratorNumbersFile ==
    /\ pair.pc = "none"
    /\ \E file \in InvoiceFileNames, dir \in InputDirs,
          data \in InvoiceDocuments, now \in Clocks :
        pair' = [pair EXCEPT !.pc = "printed", !.file = file, !.data = data,
                             !.printedAt = now,
                             !.printed = GeneratorNumber(dir \o file, data, now)]
    /\ UNCHANGED <<refVars, fxVars, numVars, genVars, repVars, sumVars, mmdVars>>

\* a report run reads the same file from its invoices directory and lists
\* its number (part_001:192-231); a file that does not belong to the year
\* is not read, and one without a month number ends the run
ReportNumbersFile ==
    /\ pair.pc = "printed"
    /\ \E year \in ReportYears, now \in Clocks :
        IF ListedForYear(pair.file, year) /\ IsDigit(pair.file[6])
        THEN pair' = [pair EXCEPT !.pc = "listed", !.listedAt = now,
                                  !.listed = ReportNumber(InvoicesDir, pair.file,
                                                          pair.data, now)]
        ELSE pair' = [pair EXCEPT !.pc = "unlisted", !.listedAt = now]
    /\ UNCHANGED <<refVars, fxVars, numVars, genVars, repVars, sumVars, mmdVars>>

NextPair == GeneratorNumbersFile \/ ReportNumbersFile

SpecPair == Init /\ [][NextPair]_vars

SpecNum == Init /\ [][NextNum]_vars

\* the invoice generator builds invoiceData from the loaded file
\* (part_000:64-89).  parseISODate is called outside any try block, so its
\* error is an uncaught exception that ends the process
BuildInvoiceData ==
    /\ gen.pc = "loaded"
    /\ \E path \in FilePaths, data \in InvoiceDocuments,
          now \in Clocks, rawDate \in RawDates :
        LET number    == GeneratorNumber(path, data, now)
            reference == generateSCORReference(number)
            date      == IF rawDate.present /\ rawDate.text # <<>>
                         THEN parseISODate(rawDate.text)
                         ELSE [status |-> "now", value |-> NoDate]
        IN  gen' = [pc |-> IF date.status = "threw" THEN "crashed" ELSE "built",
                    filePath |-> path, data |-> data, rawDate |-> rawDate,
                    number |-> number, reference |-> reference,
                    date |-> date, pdf |-> FALSE]
    /\ UNCHANGED <<refVars, fxVars, numVars, repVars, sumVars, pairVars, mmdVars>>

\* the generator opens the output file and the PDF document
\* (part_000:112-116)
CreatePdf ==
    /\ gen.pc = "built"
    /\ gen' = [gen EXCEPT !.pc = "pdf", !.pdf = TRUE]
    /\ UNCHANGED <<refVars, fxVars, numVars, repVars, sumVars, pairVars, mmdVars>>

NextGen == BuildInvoiceData \/ CreatePdf

SpecGen == Init /\ [][NextGen]_vars

\* generateReport up to the rate fetch (part_001:159-178): a run without a
\* valid year argument or without the invoices directory exits with 1,
\* any other calls getOfficialExchangeRates
StartReport ==
    /\ step = "start"
    /\ \E valid \in BOOLEAN :
        IF valid
        THEN /\ step' = "fetching"
             /\ fetchCalls' = fetchCalls + 1
             /\ UNCHANGED exitCode
        ELSE /\ step' = "exited"
             /\ exitCode' = 1
             /\ UNCHANGED fetchCalls
    /\ UNCHANGED <<refVars, fxVars, numVars, genVars, sumVars, pairVars, mmdVars,
                   exchangeRates, invoices, processed, report, warnings, written,
                   markdown>>

\* a variant that goes on with the table {CHF: 1} when the promise rejects
RatesSettle_Fallback ==
    /\ step = "fetching"
    /\ \E r \in ReportResponses :
        LET outcome == getOfficialExchangeRates(r)
        IN  /\ serviceResponse' = r
            /\ fetch' = outcome
            /\ step' = "reading"
            /\ exchangeRates' = IF outcome.status = "rejected"
                                THEN [c \in {"CHF"} |-> One] ELSE outcome.rates
    /\ UNCHANGED <<refVars, numVars, genVars, sumVars, pairVars, mmdVars, conv, back,
                   fetchCalls, invoices, processed, report, warnings, written,
                   markdown, exitCode>>

\* the awaited promise settles (part_001:177-189): a rejection is logged
\* and the process exits with 1
RatesSettle ==
    /\ step = "fetching"
    /\ \E r \in ReportResponses :
        LET outcome == getOfficialExchangeRates(r)
        IN  /\ serviceResponse' = r
            /\ fetch' = outcome
            /\ IF outcome.status = "rejected"
               THEN /\ step' = "exited"
                    /\ exitCode' = 1
                    /\ UNCHANGED exchangeRates
               ELSE /\ step' = "reading"
                    /\ exchangeRates' = outcome.rates
                    /\ UNCHANGED exitCode
    /\ UNCHANGED <<refVars, numVars, genVars, sumVars, pairVars, mmdVars, conv, back,
                   fetchCalls, invoices, processed, report, warnings, written,
                   markdown>>

\* the files of the year are listed and read (part_001:191-231); with no
\* file the run warns and exits with 0; a file whose month is no number
\* has an invalid date, toISOString throws and the run exits with 1
ReadInvoices ==
    /\ step = "reading"
    /\ \E listing \in Listings :
        IF listing = <<>>
        THEN /\ step' = "exited"
             /\ exitCode' = 0
             /\ UNCHANGED invoices
        ELSE IF \E i \in DOMAIN listing : ~IsDigit(Head(listing[i].month))
        THEN /\ step' = "exited"
             /\ exitCode' = 1
             /\ UNCHANGED invoices
        ELSE /\ step' = "checking"
             /\ invoices' = listing
             /\ UNCHANGED exitCode
    /\ UNCHANGED <<refVars, fxVars, numVars, genVars, sumVars, pairVars, mmdVars,
                   fetchCalls, exchangeRates, processed, report, warnings, written,
                   markdown>>

\* the creditor consistency check and the empty report (part_001:233-266)
CheckCreditors ==
    /\ step = "checking"
    /\ IF CreditorMismatch(invoices)
       THEN /\ step' = "exited"
            /\ exitCode' = 1
       ELSE /\ step' = "aggregating"
            /\ UNCHANGED exitCode
    /\ report' = EmptyReport
    /\ UNCHANGED <<refVars, fxVars, numVars, genVars, sumVars, pairVars, mmdVars,
                   fetchCalls, exchangeRates, invoices, processed, warnings, written,
                   markdown>>

\* a variant in which a failed conversion ends the run with exit code 1
AggregateInvoice_Abort ==
    /\ step = "aggregating"
    /\ processed < Len(invoices)
    /\ LET invoice == invoices[processed + 1]
       IN  IF ConversionFailed(invoice, exchangeRates)
           THEN /\ step' = "exited"
                /\ exitCode' = 1
                /\ UNCHANGED <<report, warnings, processed>>
           ELSE /\ report' = AggregateOne(report, invoice, ReportYear, exchangeRates)
                /\ processed' = processed + 1
                /\ UNCHANGED <<step, exitCode, warnings>>
    /\ UNCHANGED <<refVars, fxVars, numVars, genVars, sumVars, pairVars, mmdVars,
                   fetchCalls, exchangeRates, invoices, written, markdown>>

\* one pass of invoices.forEach (part_001:269-346)
AggregateInvoice ==
    /\ step = "aggregating"
    /\ processed < Len(invoices)
    /\ LET invoice == invoices[processed + 1]
       IN  /\ report' = AggregateOne(report, invoice, ReportYear, exchangeRates)
           /\ warnings' = warnings +
                  (IF ConversionFailed(invoice, exchangeRates) THEN 1 ELSE 0)
    /\ processed' = processed + 1
    /\ UNCHANGED <<refVars, fxVars, numVars, genVars, sumVars, pairVars, mmdVars, step,
                   fetchCalls, exchangeRates, invoices, written, markdown, exitCode>>

\* after the last invoice the list is sorted by date and the report files
\* of the chosen languages are written (part_001:348-381, 584); the process
\* then ends
WriteReports ==
    /\ step = "aggregating"
    /\ processed = Len(invoices)
    /\ report' = [report EXCEPT !.invoices = SortByDate(report.invoices)]
    /\ \E languages \in Languages : written' = languages
    /\ \E now \in ReportClocks :
        markdown' = [now |-> now,
                     rows |-> QuarterlyRows(report, ReportYear, now)]
    /\ step' = "done"
    /\ exitCode' = 0
    /\ UNCHANGED <<refVars, fxVars, numVars, genVars, sumVars, pairVars, mmdVars,
                   fetchCalls, exchangeRates, invoices, processed, warnings>>

\* one pass of invoices.forEach in double precision (part_001:269-332)
AccumulateInvoiceCHF ==
    /\ totals.count < MaxInvoices
    /\ \E invoice \in DoubleInvoices :
        LET key == <<invoice.month,
                     IF invoice.currency = "" THEN "CHF" ELSE invoice.currency>>
        IN  /\ totals' = AccumulateCHF(totals, invoice, TableWithoutUSD)
            /\ native' = AccumulateNative(native, invoice)
            /\ billed' = Put(billed, key,
                             ExactAdd(DoubleGet(billed, key),
                                      DoubleSumItems(invoice.items).value))
    /\ UNCHANGED <<refVars, fxVars, numVars, genVars, repVars, pairVars, mmdVars>>

NextTotals == AccumulateInvoiceCHF

SpecTotals == Init /\ [][NextTotals]_vars

NextReport ==
    \/ StartReport
    \/ RatesSettle
    \/ ReadInvoices
    \/ CheckCreditors
    \/ AggregateInvoice
    \/ WriteReports

SpecReport == Init /\ [][NextReport]_vars

\* mermaid-to-png.ts:23-51: the options are parsed; without mermaid-cli
\* the process exits with 1, otherwise the temporary directory is created
MermaidStartup ==
    /\ mmd.pc = "start"
    /\ \E keepTemp \in BOOLEAN, extract \in BOOLEAN, markdownName \in BOOLEAN,
          installed \in BOOLEAN :
        mmd' = IF installed
               THEN [mmd EXCEPT !.pc = "try", !.keepTemp = keepTemp,
                                !.extract = extract, !.markdownName = markdownName,
                                !.tempDir = "exists"]
               ELSE [mmd EXCEPT !.pc = "exited", !.keepTemp = keepTemp,
                                !.extract = extract, !.markdownName = markdownName,
                                !.exitCode = 1]
    /\ UNCHANGED <<refVars, fxVars, numVars, genVars, repVars, sumVars, pairVars>>

\* lines 117-124: a missing input file ends the process inside the try
\* block; process.exit does not return, so the finally block is not run
MermaidCheckInput ==
    /\ mmd.pc = "try"
    /\ \E exists \in BOOLEAN :
        mmd' = IF ~exists THEN [mmd EXCEPT !.pc = "exited", !.exitCode = 1]
               ELSE IF mmd.extract \/ mmd.markdownName
               THEN [mmd EXCEPT !.pc = "extract"]
               ELSE [mmd EXCEPT !.pc = "outputDir"]
    /\ UNCHANGED <<refVars, fxVars, numVars, genVars, repVars, sumVars, pairVars>>

\* lines 95-114, called at line 125: readFileSync may throw; a file
\* without a Mermaid block ends the process with 1
MermaidExtract ==
    /\ mmd.pc = "extract"
    /\ \/ mmd' = [mmd EXCEPT !.pc = "catch"]
       \/ \E found \in 0..MaxDiagrams :
             mmd' = IF found = 0
                    THEN [mmd EXCEPT !.pc = "exited", !.exitCode = 1]
                    ELSE [mmd EXCEPT !.pc = "outputDir", !.diagrams = found]
    /\ UNCHANGED <<refVars, fxVars, numVars, genVars, repVars, sumVars, pairVars>>

\* lines 127-139 and 162-169: the output directory is created when it is
\* missing; mkdirSync may throw
MermaidOutputDir ==
    /\ mmd.pc = "outputDir"
    /\ \E created \in BOOLEAN :
        mmd' = IF ~created THEN [mmd EXCEPT !.pc = "catch"]
               ELSE IF mmd.extract \/ mmd.markdownName
               THEN [mmd EXCEPT !.pc = "loop"]
               ELSE [mmd EXCEPT !.pc = "single"]
    /\ UNCHANGED <<refVars, fxVars, numVars, genVars, repVars, sumVars, pairVars>>

\* lines 142-157 with processMermaidFile (54-92): one diagram is written
\* to the temporary directory and converted; a failed conversion is logged
\* and the loop goes on, a failed write throws; after the last diagram the
\* try block ends
MermaidConvertDiagram ==
    /\ mmd.pc = "loop"
    /\ mmd.i < mmd.diagrams
    /\ \E outcome \in {"converted", "failed", "threw"} :
        mmd' = IF outcome = "threw" THEN [mmd EXCEPT !.pc = "catch"]
               ELSE [mmd EXCEPT
                        !.i = mmd.i + 1,
                        !.successCount = mmd.successCount
                                            + (IF outcome = "converted" THEN 1 ELSE 0),
                        !.pc = IF mmd.i + 1 = mmd.diagrams THEN "finally" ELSE "loop"]
    /\ UNCHANGED <<refVars, fxVars, numVars, genVars, repVars, sumVars, pairVars>>

\* lines 171-174 with processMermaidFile: the single Mermaid file is
\* converted and the result is not looked at; writing the configuration
\* file may throw
MermaidConvertSingle ==
    /\ mmd.pc = "single"
    /\ \E outcome \in {"converted", "failed", "threw"} :
        mmd' = IF outcome = "threw" THEN [mmd EXCEPT !.pc = "catch"]
               ELSE [mmd EXCEPT
                        !.successCount = IF outcome = "converted" THEN 1 ELSE 0,
                        !.pc = "finally"]
    /\ UNCHANGED <<refVars, fxVars, numVars, genVars, repVars, sumVars, pairVars>>

\* lines 176-179: the error is logged and process.exit(1) ends the process
\* in the catch block, before the finally block
MermaidCatch ==
    /\ mmd.pc = "catch"
    /\ mmd' = [mmd EXCEPT !.pc = "exited", !.exitCode = 1]
    /\ UNCHANGED <<refVars, fxVars, numVars, genVars, repVars, sumVars, pairVars>>

\* lines 180-189: without --keep-temp the temporary directory is removed;
\* a failing rmSync is reported as a warning; the script ends
MermaidFinally ==
    /\ mmd.pc = "finally"
    /\ \E removed \in BOOLEAN :
        mmd' = IF mmd.keepTemp THEN [mmd EXCEPT !.pc = "exited", !.exitCode = 0]
               ELSE IF removed
               THEN [mmd EXCEPT !.pc = "exited", !.exitCode = 0, !.tempDir = "removed"]
               ELSE [mmd EXCEPT !.pc = "exited", !.exitCode = 0, !.warned = TRUE]
    /\ UNCHANGED <<refVars, fxVars, numVars, genVars, repVars, sumVars, pairVars>>

NextMermaid ==
    \/ MermaidStartup
    \/ MermaidCheckInput
    \/ MermaidExtract
    \/ MermaidOutputDir
    \/ MermaidConvertDiagram
    \/ MermaidConvertSingle
    \/ MermaidCatch
    \/ MermaidFinally

SpecMermaid == Init /\ [][NextMermaid]_vars

Next ==
    \/ NextRef \/ NextFx \/ NextNum \/ NextGen \/ NextPair
    \/ NextReport \/ NextTotals \/ NextMermaid

Spec == Init /\ [][Next]_vars

(***************************************************************************)
(* Properties of generateSCORReference                                     *)
(***************************************************************************)
\* the input with every character other than ASCII letters and digits removed
AlnumOnly(s) == SelectSeq(s, IsAlnum)

\* the two characters that follow "RF"
CheckField(ref) == SubSeq(ref, 3, 4)

\* the decimal value of a string of digits below 100
RECURSIVE DigitsValue(_)
DigitsValue(s) ==
    IF s = <<>> THEN 0
    ELSE DigitsValue(SubSeq(s, 1, Len(s) - 1)) * 10
         + (IndexOf(DigitChars, s[Len(s)]) - 1)

\* ISO 11649: A=10 ... Z=35, digits unchanged
RECURSIVE IsoDigits(_)
IsoDigits(s) ==
    IF s = <<>> THEN <<>>
    ELSE (IF IsDigit(Head(s)) THEN <<Head(s)>>
          ELSE NatToString(9 + IndexOf(UpperChars, UpperOfChar(Head(s)))))
         \o IsoDigits(Tail(s))

\* ISO 11649 validation: the first four characters moved to the end, letters
\* replaced, the number read is congruent to 1 modulo 97
IsoValid(ref) ==
    LET moved == SubSeq(ref, 5, Len(ref)) \o SubSeq(ref, 1, 4)
    IN  BigIntMod(IsoDigits(moved), 97) = 1

ScorReturned == scor.status = "returned"

\* C1 (as stated): generateSCORReference("A1") returns "RF42A1"
C1_Original ==
    (ScorReturned /\ invoiceNumber = <<"A", "1">>)
        => scor.value = <<"R", "F", "4", "2", "A", "1">>

\* C1 (amended): generateSCORReference("A1") returns "RF90A1": "RF00" is
\* letter-mapped with R becoming 27 and F becoming 15, the digit string is
\* 101271500, its remainder modulo 97 is 8 and the check digits are 90
C1_ScorOfA1 ==
    /\ MapJoin(RFTemplate) = <<"2", "7", "1", "5", "0", "0">>
    /\ (ScorReturned /\ invoiceNumber = <<"A", "1">>)
        => scor.value = <<"R", "F", "9", "0", "A", "1">>

C1_Witness ==
    /\ ScorReturned
    /\ invoiceNumber = <<"A", "1">>
    /\ scor.value = <<"R", "F", "9", "0", "A", "1">>

\* C2: every reference returned for an input with at least one ASCII letter
\* or digit validates under the ISO 11649 modulo-97 checksum
C2_IsoChecksum ==
    (ScorReturned /\ AlnumOnly(invoiceNumber) # <<>>) => IsoValid(scor.value)

C2_Witness ==
    /\ ScorReturned
    /\ \E i \in DOMAIN invoiceNumber : IsLower(invoiceNumber[i])
    /\ \E i \in DOMAIN invoiceNumber : IsDigit(invoiceNumber[i])
    /\ IsoValid(scor.value)

\* C3 (as stated): the call fails exactly when the input contains no ASCII
\* letter or digit, and returns a reference otherwise
C3_Original ==
    scor.status # "none"
        => (scor.status = "threw" <=> AlnumOnly(invoiceNumber) = <<>>)

\* C4: the two characters after "RF" are two decimal digits whose value
\* lies in 02..98, for every input
C4_CheckDigitRange ==
    ScorReturned =>
        /\ Len(scor.value) = 4 + Len(AlnumOnly(invoiceNumber))
        /\ SubSeq(scor.value, 1, 2) = <<"R", "F">>
        /\ IsDigit(scor.value[3])
        /\ IsDigit(scor.value[4])
        /\ DigitsValue(CheckField(scor.value)) \in 2..98

C4_Witness ==
    /\ ScorReturned
    /\ AlnumOnly(invoiceNumber) # <<>>
    /\ scor.value[3] = "0"
    /\ DigitsValue(CheckField(scor.value)) \in 2..9

\* C5: the result is "RF" + checkDigits + clean with clean in its original
\* case and order, and the check digits are those of the uppercased clean,
\* so inputs differing only in case or stripped punctuation share them
C5_CleanPayload ==
    ScorReturned =>
        LET clean == AlnumOnly(invoiceNumber)
        IN  /\ scor.value = <<"R", "F">> \o CheckField(scor.value) \o clean
            /\ CheckField(scor.value)
                   = CheckField(generateSCORReference(toUpperCase(clean)))

C5_Witness ==
    /\ ScorReturned
    /\ AlnumOnly(invoiceNumber) # invoiceNumber
    /\ toUpperCase(AlnumOnly(invoiceNumber)) # AlnumOnly(invoiceNumber)
    /\ SubSeq(scor.value, 5, Len(scor.value)) = AlnumOnly(invoiceNumber)

(***************************************************************************)
(* Properties of convertCurrency and getOfficialExchangeRates              *)
(***************************************************************************)
HasEntry(c) == c \in DOMAIN fetch.rates

\* an entry that is a finite number other than 0
FiniteNonZero(c) ==
    HasEntry(c) /\ fetch.rates[c].k = "fin" /\ fetch.rates[c].n # 0

ExpectedConversion ==
    Div(Mul(conv.amount, fetch.rates[conv.from]), fetch.rates[conv.to])

\* C6 (as stated): with from # to and an entry for both, whatever their
\* values, the call returns amount * rates[from] / rates[to]
C6_Original ==
    (conv.called /\ conv.from # conv.to /\ HasEntry(conv.from) /\ HasEntry(conv.to))
        => conv.out = Returned(ExpectedConversion)

\* C6 (amended): with from # to and an entry other than 0 (and NaN) for
\* both, the call returns amount * rates[from] / rates[to]; an entry of 0
\* counts as missing
C6_ConversionFormula ==
    /\ (conv.called /\ conv.from # conv.to
            /\ Truthy(Lookup(fetch.rates, conv.from))
            /\ Truthy(Lookup(fetch.rates, conv.to)))
        => conv.out = Returned(ExpectedConversion)
    /\ (conv.called /\ conv.from # conv.to
            /\ \E c \in {conv.from, conv.to} : HasEntry(c) /\ IsZero(fetch.rates[c]))
        => conv.out = Threw

C6_Witness ==
    /\ conv.called
    /\ conv.from # conv.to
    /\ FiniteNonZero(conv.from)
    /\ FiniteNonZero(conv.to)
    /\ conv.out.status = "returned"
    /\ conv.out.value # conv.amount
    /\ conv.out.value = ExpectedConversion

\* C7: with from # to, the call fails whenever rates lacks an entry for
\* from or for to
C7_MissingRate ==
    (conv.called /\ conv.from # conv.to /\ (~HasEntry(conv.from) \/ ~HasEntry(conv.to)))
        => conv.out = Threw

C7_Witness ==
    /\ conv.called
    /\ conv.from # conv.to
    /\ FiniteNonZero(conv.from)
    /\ ~HasEntry(conv.to)
    /\ conv.out = Threw

\* C8: convertCurrency(x, C, C, rates) returns x, for every table holding C
C8_SameCurrency ==
    (conv.called /\ conv.from = conv.to /\ HasEntry(conv.from))
        => conv.out = Returned(conv.amount)

C8_Witness ==
    /\ conv.called
    /\ conv.from = conv.to
    /\ HasEntry(conv.from)
    /\ IsZero(fetch.rates[conv.from])
    /\ ~IsZero(conv.amount)
    /\ conv.out = Returned(conv.amount)

\* C9 (as stated): for A and B present in the table, neither call of the
\* round trip fails and the second returns x
C9_Original ==
    (conv.called /\ HasEntry(conv.from) /\ HasEntry(conv.to))
        => /\ conv.out.status = "returned"
           /\ back.called => back.out = Returned(conv.amount)

\* C9 (amended): for A and B present in the table with finite rates other
\* than 0, neither call of the round trip fails and the second returns x
C9_RoundTrip ==
    (conv.called /\ FiniteNonZero(conv.from) /\ FiniteNonZero(conv.to))
        => /\ conv.out.status = "returned"
           /\ back.called => back.out = Returned(conv.amount)

C9_Witness ==
    /\ back.called
    /\ conv.from # conv.to
    /\ FiniteNonZero(conv.from)
    /\ FiniteNonZero(conv.to)
    /\ conv.out.value # conv.amount
    /\ back.out = Returned(conv.amount)

\* C10 (as stated): every table getOfficialExchangeRates resolves with
\* maps "CHF" to 1, whatever the response contains
C10_Original ==
    fetch.status = "resolved" => Lookup(fetch.rates, "CHF") = One

\* C11 (as stated): for every non-CHF currency X the service reports with a
\* rate s (a finite number other than 0), the resolved table holds
\* rates[X] = 1/s, its non-CHF entries are exactly the reported currencies,
\* and convertCurrency(a, X, "CHF", rates) equals a / s
C11_Original ==
    fetch.status = "resolved" =>
        /\ DOMAIN fetch.rates \ {"CHF"} = DOMAIN serviceResponse.rates \ {"CHF"}
        /\ \A X \in DOMAIN serviceResponse.rates \ {"CHF"} :
              LET s == serviceResponse.rates[X]
              IN  (s.k = "fin" /\ s.n # 0) =>
                    /\ fetch.rates[X] = Div(One, s)
                    /\ (conv.called /\ conv.from = X /\ conv.to = "CHF")
                          => conv.out = Returned(Div(conv.amount, s))

(***************************************************************************)
(* Properties of generateInvoiceNumberFromFile                             *)
(***************************************************************************)
\* the part of a path after its last "/"
PathTail(path) ==
    LET slashes == {i \in DOMAIN path : path[i] = "/"}
    IN  IF slashes = {} THEN path
        ELSE SubSeq(path, (CHOOSE i \in slashes : \A j \in slashes : j <= i) + 1, Len(path))

\* the base name starts with four digits, a hyphen and two digits
DatedName(name) ==
    /\ Len(name) >= 7
    /\ \A i \in 1..4 : IsDigit(name[i])
    /\ name[5] = "-"
    /\ \A i \in 6..7 : IsDigit(name[i])

\* the decimal text of n in exactly `width` digits
RECURSIVE FixedDigits(_, _)
FixedDigits(n, width) ==
    IF width = 0 THEN <<>>
    ELSE FixedDigits(n \div 10, width - 1) \o <<DigitChars[(n % 10) + 1]>>

\* the suffix the claim describes: the hash prefix modulo 1000, three digits
ExpectedSuffix(data) == FixedDigits(HexMod(data.sha, 1000), 3)

\* C18: an explicit, non-empty number is returned unchanged, whatever the
\* file name, the current date and the rest of the invoice data
C18_ExplicitNumberWins ==
    (numbering.called /\ numbering.data.number.present
        /\ numbering.data.number.text # <<>>)
        => numbering.out = numbering.data.number.text

C18_Witness ==
    /\ numbering.called
    /\ numbering.data.number.present
    /\ numbering.data.number.text = <<"I", "N", "V", "-", "7">>
    /\ DatedName(PathTail(numbering.filePath))
    /\ numbering.out = <<"I", "N", "V", "-", "7">>

\* C19: without an explicit number the result is YYMM-suffix with a suffix
\* of three digits that depends on the serialized data only; for a base
\* name starting YYYY-MM the prefix is the year's last two digits and that
\* month, whatever the current date and the directory; otherwise it is the
\* current year's last two digits and the current two-digit month
C19_DerivedNumber ==
    (numbering.called
        /\ ~(numbering.data.number.present /\ numbering.data.number.text # <<>>))
        => LET name   == PathTail(numbering.filePath)
               prefix == IF DatedName(name)
                         THEN SubSeq(name, 3, 4) \o SubSeq(name, 6, 7)
                         ELSE FixedDigits(numbering.now.year % 100, 2)
                                  \o FixedDigits(numbering.now.month, 2)
           IN  /\ numbering.out = prefix \o <<"-">> \o ExpectedSuffix(numbering.data)
               /\ Len(numbering.out) = 8
               /\ \A i \in 6..8 : IsDigit(numbering.out[i])

C19_Witness ==
    /\ numbering.called
    /\ ~numbering.data.number.present
    /\ Len(PathTail(numbering.filePath)) < Len(numbering.filePath)
    /\ DatedName(PathTail(numbering.filePath))
    /\ numbering.out = <<"2", "5", "0", "3", "-", "0", "8", "9">>

(***************************************************************************)
(* Properties of parseISODate                                              *)
(***************************************************************************)
\* a text of the form YYYY-MM-DD (possibly followed by a time) that names a
\* day of the calendar, or a text the engine reads as a date
ValidCalendarDate(s) ==
    \/ /\ Len(s) >= 10
       /\ \A i \in {1, 2, 3, 4, 6, 7, 9, 10} : IsDigit(s[i])
       /\ s[5] = "-" /\ s[8] = "-"
       /\ LET y == DigitsValue(SubSeq(s, 1, 4))
              m == DigitsValue(SubSeq(s, 6, 7))
              d == DigitsValue(SubSeq(s, 9, 10))
          IN  m \in 1..12 /\ d \in 1..DaysInMonth(y, m)
    \/ \E e \in EngineParsedDates : e[1] = s

\* C20 (as stated): parseISODate fails for every string that is not a valid
\* calendar date, strings like 2025-13-45 and 2025-02-30 included, and in
\* the invoice generator the failure ends the run before any PDF is made
C20_Original ==
    (gen.pc # "loaded" /\ gen.rawDate.present /\ ~ValidCalendarDate(gen.rawDate.text))
        => /\ gen.date.status = "threw"
           /\ gen.pc = "crashed"
           /\ ~gen.pdf

(***************************************************************************)
(* The report generator                                                    *)
(***************************************************************************)
\* the run has read invoice files or gone further
PastFetch ==
    \/ step \in {"reading", "checking", "aggregating", "done"}
    \/ invoices # <<>>
    \/ processed > 0
    \/ report # EmptyReport
    \/ written # {}

\* C12: a run of the report generator never fetches the rates twice, and it
\* has fetched them once, successfully, before it reads or aggregates any
\* invoice; when the fetch fails (request error, unparseable body, body
\* without rates) the run has ended with exit code 1, has read and
\* aggregated no invoice, has written no report file and holds no rate
\* table.  (A run rejected for its arguments or its missing invoices
\* directory ends before the fetch.)
C12_FetchOnceFirst ==
    /\ fetchCalls <= 1
    /\ PastFetch => fetchCalls = 1 /\ fetch.status = "resolved"
    /\ fetch.status = "rejected" =>
          /\ serviceResponse.kind \in {"error", "garbage", "norates"}
          /\ step = "exited"
          /\ exitCode = 1
          /\ invoices = <<>>
          /\ processed = 0
          /\ report = EmptyReport
          /\ written = {}
          /\ exchangeRates = NoRates

C12_Witness ==
    /\ fetchCalls = 1
    /\ serviceResponse.kind = "garbage"
    /\ fetch.status = "rejected"
    /\ exitCode = 1

\* every invoice of the run names the creditor of the first one
CreditorsAgree ==
    \A i \in DOMAIN invoices :
        /\ invoices[i].creditor.name = invoices[1].creditor.name
        /\ invoices[i].creditor.uid = invoices[1].creditor.uid

\* C13: once the creditor check has run on two or more invoices of which
\* one differs from the first in creditor name or uid, the run has ended
\* with exit code 1, nothing was accumulated into the report and no report
\* file was written; when all invoices agree on both fields the run does
\* not end at the check
C13_CreditorCheck ==
    /\ (Len(invoices) >= 2 /\ ~CreditorsAgree /\ step # "checking") =>
          /\ step = "exited"
          /\ exitCode = 1
          /\ processed = 0
          /\ report = EmptyReport
          /\ written = {}
    /\ (invoices # <<>> /\ CreditorsAgree) =>
          /\ step \in {"checking", "aggregating", "done"}
          /\ exitCode # 1

\* two invoices whose creditors differ in uid alone, after the check
C13_Witness ==
    /\ Len(invoices) = 2
    /\ invoices[1].creditor.name = invoices[2].creditor.name
    /\ invoices[1].creditor.uid # invoices[2].creditor.uid
    /\ step = "exited"
    /\ exitCode = 1

\* the invoices handled so far that bill the client, by position
HandledFor(client) == {i \in 1..processed : invoices[i].client = client}

Smallest(S) == CHOOSE i \in S : \A j \in S : i <= j

Largest(S) == CHOOSE i \in S : \A j \in S : i >= j

\* the currency an invoice is billed in: CHF unless it names another
BilledCurrency(i) ==
    IF invoices[i].currency = "" THEN "CHF" ELSE invoices[i].currency

RECURSIVE ExactSumOf(_)
ExactSumOf(map) ==
    IF DOMAIN map = {} THEN DoubleZero
    ELSE LET k == CHOOSE x \in DOMAIN map : TRUE
         IN  ExactAdd(map[k], ExactSumOf([x \in DOMAIN map \ {k} |-> map[x]]))

\* the dyadic numbers x and y are the same number
SameNumber(x, y) ==
    LET e == IF x.e < y.e THEN x.e ELSE y.e
    IN  IF x.m = <<>> \/ y.m = <<>> THEN x.m = y.m
        ELSE ShiftLeft(x.m, x.e - e) = ShiftLeft(y.m, y.e - e)

ScenarioInvoices ==
    /\ Len(invoices) = 2
    /\ invoices[1].client = invoices[2].client
    /\ invoices[1].vatRate = Null
    /\ invoices[2].vatRate = Null
    /\ \E i \in {1, 2} :
          /\ invoices[i].currency \in {"", "CHF"}
          /\ invoices[i].items = <<Fin(100, 1)>>
          /\ invoices[3 - i].currency = "EUR"
          /\ invoices[3 - i].items \in {<<Fin(50, 1)>>, <<Fin(20, 1), Fin(30, 1)>>}

\* C16: with the rate table {CHF: 1, EUR: 1.05}, once the two invoices of
\* the scenario are aggregated, totalRevenueCHF is 152.5, totalRevenue is
\* {CHF: 100, EUR: 50} and the client's invoiceCount is 2
C16_Scenario ==
    (/\ exchangeRates = [c \in {"CHF", "EUR"} |-> IF c = "CHF" THEN One ELSE Fin(21, 20)]
     /\ ScenarioInvoices
     /\ processed = 2) =>
        /\ report.totalRevenueCHF = Fin(305, 2)
        /\ report.totalRevenue = [c \in {"CHF", "EUR"} |->
                                     IF c = "CHF" THEN Fin(100, 1) ELSE Fin(50, 1)]
        /\ report.clientSummary[invoices[1].client].invoiceCount = 2

C16_Witness ==
    /\ exchangeRates = [c \in {"CHF", "EUR"} |-> IF c = "CHF" THEN One ELSE Fin(21, 20)]
    /\ ScenarioInvoices
    /\ invoices[1].currency = ""
    /\ invoices[2].items = <<Fin(20, 1), Fin(30, 1)>>
    /\ step = "done"
    /\ report.totalRevenueCHF = Fin(305, 2)

\* the table has a rate for the currency that is neither 0 nor NaN
UsableRate(c) ==
    /\ c \in DOMAIN exchangeRates
    /\ exchangeRates[c].k \in {"fin", "inf"}
    /\ exchangeRates[c].n # 0

\* the i-th invoice is not in CHF and its conversion to CHF has no usable
\* rate
NoUsableRate(i) ==
    /\ BilledCurrency(i) # "CHF"
    /\ ~(UsableRate(BilledCurrency(i)) /\ UsableRate("CHF"))

\* C17: a non-CHF invoice without a usable rate is logged as one warning
\* and enters the report with amountCHF equal to its amount; the run is not
\* ended by it: it stays in the loop, where the next pass or the writing of
\* the report is the next step, and when the run is done every invoice of
\* the run has been handled and the report files are written
C17_FallbackContinues ==
    /\ warnings = Cardinality({i \in 1..processed : NoUsableRate(i)})
    /\ step = "aggregating" =>
          /\ processed <= Len(invoices)
          /\ Len(report.invoices) = processed
          /\ \A i \in 1..processed :
                NoUsableRate(i) =>
                    report.invoices[i].amountCHF = report.invoices[i].amount
    /\ (CreditorsAgree /\ \E i \in DOMAIN invoices : NoUsableRate(i)) =>
          /\ step \in {"checking", "aggregating", "done"}
          /\ exitCode \in {-1, 0}
    /\ step = "done" =>
          /\ processed = Len(invoices)
          /\ Len(report.invoices) = Len(invoices)
          /\ written # {}
          /\ exitCode = 0

\* three invoices of which the first is in USD with no USD rate: all three
\* are in the written report
C17_Witness ==
    /\ Len(invoices) = 3
    /\ NoUsableRate(1)
    /\ ~NoUsableRate(3)
    /\ warnings >= 1
    /\ step = "done"
    /\ Len(report.invoices) = 3
    /\ written = {"de", "en"}

\* the sum of the line-item amounts of the i-th invoice
RECURSIVE AmountsFrom(_, _)
AmountsFrom(items, k) ==
    IF k > Len(items) THEN Zero ELSE Add(items[k], AmountsFrom(items, k + 1))

PlainSum(i) == AmountsFrom(invoices[i].items, 1)

\* the total the invoice stands for: the plain sum, times 1 + vatRate/100
\* when a VAT rate is set
ExpectedTotal(i) ==
    IF invoices[i].vatRate.k \in {"null", "undefined"} THEN PlainSum(i)
    ELSE Mul(PlainSum(i), Add(One, Div(invoices[i].vatRate, Hundred)))

\* C22: during the pass the amount of every invoice handled so far is the
\* sum of its line-item amounts, multiplied by 1 + vatRate/100 when the
\* VAT rate is set and left as it is when the rate is null or absent; a
\* rate of 0 gives the plain sum
C22_InvoiceTotal ==
    step = "aggregating" =>
        \A i \in 1..processed :
            /\ report.invoices[i].amount = ExpectedTotal(i)
            /\ invoices[i].vatRate = Zero => report.invoices[i].amount = PlainSum(i)

\* an invoice of 100 with 8 % VAT handled: its amount is 108
C22_Witness ==
    /\ step = "aggregating"
    /\ processed >= 1
    /\ invoices[1].vatRate = Fin(8, 1)
    /\ invoices[1].items = <<Hundred>>
    /\ report.invoices[1].amount = Fin(108, 1)

\* the exact total billed in a currency, over the given months
BilledIn(currency, months) ==
    ExactSumOf([k \in {x \in DOMAIN billed : x[2] = currency /\ x[1] \in months}
                   |-> billed[k]])

BilledCurrencies == {k[2] : k \in DOMAIN billed}

BilledMonths == {k[1] : k \in DOMAIN billed}

\* the native accumulators hold the sums of the invoices of their
\* currency and month
NativePerBucket ==
    /\ DOMAIN native.totalRevenue = BilledCurrencies
    /\ DOMAIN native.byCurrency = BilledMonths
    /\ \A c \in BilledCurrencies :
          SameNumber(native.totalRevenue[c], BilledIn(c, BilledMonths))
    /\ \A m \in BilledMonths :
          /\ DOMAIN native.byCurrency[m] = {k[2] : k \in {x \in DOMAIN billed : x[1] = m}}
          /\ \A c \in DOMAIN native.byCurrency[m] :
                SameNumber(native.byCurrency[m][c], BilledIn(c, {m}))

\* a month's total is the sum of its byCurrency values, and the byCurrency
\* values of a currency over the months add up to totalRevenue of it
NativeCrossSums ==
    /\ \A m \in DOMAIN native.monthTotal :
          SameNumber(native.monthTotal[m], ExactSumOf(native.byCurrency[m]))
    /\ \A c \in DOMAIN native.totalRevenue :
          SameNumber(native.totalRevenue[c],
                     ExactSumOf([m \in {x \in DOMAIN native.byCurrency :
                                           c \in DOMAIN native.byCurrency[x]}
                                    |-> native.byCurrency[m][c]]))

\* the floating-point sums of the values of a map, one per order of adding
RECURSIVE DoubleSumsOf(_)
DoubleSumsOf(map) ==
    IF DOMAIN map = {} THEN {DoubleZero}
    ELSE UNION {{DoubleAdd(s, map[k]) :
                    s \in DoubleSumsOf([j \in DOMAIN map \ {k} |-> map[j]])} :
                k \in DOMAIN map}

\* C23 as stated, its sums read as floating-point sums in whichever order:
\* a month's total is the sum of its byCurrency values and the months'
\* byCurrency[c] add up to totalRevenue[c].  With 0.1 CHF, 0.2 USD and
\* 0.3 USD in one month the month's total is (0.1 + 0.2) + 0.3 =
\* 0.6000000000000001 while its byCurrency values 0.1 and 0.5 add up to 0.6
C23_Original ==
    /\ \A m \in DOMAIN native.monthTotal :
          native.monthTotal[m] \in DoubleSumsOf(native.byCurrency[m])
    /\ \A c \in DOMAIN native.totalRevenue :
          native.totalRevenue[c] \in
              DoubleSumsOf([m \in {x \in DOMAIN native.byCurrency :
                                      c \in DOMAIN native.byCurrency[x]}
                               |-> native.byCurrency[m][c]])

\* C23: after every prefix of the invoices the keys of totalRevenue and of
\* the months' byCurrency maps are the currencies billed (CHF for an
\* invoice without currency), and as long as no addition has been rounded
\* each of these accumulators is the sum of the unconverted totals of
\* exactly the invoices of its currency (and month), a month's total is the
\* sum of its byCurrency values and the months' byCurrency[c] add up to
\* totalRevenue[c]
C23_NativeSumsUnrounded ==
    /\ DOMAIN native.totalRevenue = BilledCurrencies
    /\ DOMAIN native.byCurrency = BilledMonths
    /\ DOMAIN native.monthTotal = BilledMonths
    /\ ~native.rounded => NativePerBucket /\ NativeCrossSums

\* three invoices of 50 or 100 in CHF and USD over two months
C23_Witness ==
    /\ totals.count = 3
    /\ ~native.rounded
    /\ DOMAIN native.totalRevenue = {"CHF", "USD"}
    /\ DOMAIN native.monthTotal = Months
    /\ native.totalRevenue["USD"] = Double(<<"9", "6">>, 0)
    /\ native.totalRevenue["CHF"] = Double(<<"6", "4">>, 0)

\* the key of calendar month n in monthlyRevenue
MonthKey(n) == padStart(NatToString(n), 2, "0")

\* the CHF total of calendar month n in the report
MonthCHF(n) ==
    IF MonthKey(n) \in DOMAIN report.monthlyRevenue
    THEN report.monthlyRevenue[MonthKey(n)].totalCHF ELSE Zero

\* the total of calendar month n in a currency
MonthIn(n, currency) ==
    IF MonthKey(n) \in DOMAIN report.monthlyRevenue
    THEN GetOrZero(report.monthlyRevenue[MonthKey(n)].byCurrency, currency)
    ELSE Zero

\* the currencies billed in the three months of a quarter
QuarterCurrencies(q) ==
    UNION {DOMAIN report.monthlyRevenue[MonthKey(n)].byCurrency :
              n \in {k \in (3 * q - 2)..(3 * q) :
                        MonthKey(k) \in DOMAIN report.monthlyRevenue}}

CurrentQuarter == ((markdown.now.month - 1) \div 3) + 1

RowOf(q) == CHOOSE row \in {markdown.rows[i] : i \in DOMAIN markdown.rows} :
                row.quarter = q

\* C21: in the quarterly table of a written report the row of quarter q is
\* present exactly when it is not the case that the report year is the
\* current year and q is after the current quarter; the rows are in quarter
\* order; the CHF figure of a row is the sum of monthlyRevenue[m].totalCHF
\* over the three months of the quarter and its per-currency figures are
\* the sums of those months' byCurrency values; for a past year all four
\* rows are there and a quarter without invoices shows 0 CHF
C21_QuarterlyRows ==
    step = "done" =>
        LET rows == markdown.rows
        IN  /\ \A q \in 1..4 :
                  (\E i \in DOMAIN rows : rows[i].quarter = q)
                      <=> ~(parseInt(ReportYear) = markdown.now.year /\ q > CurrentQuarter)
            /\ \A i, j \in DOMAIN rows : i < j => rows[i].quarter < rows[j].quarter
            /\ \A i \in DOMAIN rows :
                  LET q == rows[i].quarter
                  IN  /\ q \in 1..4
                      /\ rows[i].quarterRevenue
                             = Add(Add(MonthCHF(3 * q - 2), MonthCHF(3 * q - 1)),
                                   MonthCHF(3 * q))
                      /\ DOMAIN rows[i].currencySums = QuarterCurrencies(q)
                      /\ \A c \in QuarterCurrencies(q) :
                            rows[i].currencySums[c]
                                = Add(Add(MonthIn(3 * q - 2, c), MonthIn(3 * q - 1, c)),
                                      MonthIn(3 * q, c))
            /\ markdown.now.year > parseInt(ReportYear) =>
                  /\ Len(rows) = 4
                  /\ \A q \in 1..4 :
                        (\A i \in DOMAIN invoices :
                            (parseInt(invoices[i].month) + 2) \div 3 # q)
                            => /\ RowOf(q).quarterRevenue = Zero
                               /\ RowOf(q).chfShown

\* a report of the current year written in its second quarter, with 100 EUR
\* billed in January and 100 CHF in April: two rows, 105 CHF and 100 CHF
C21_Witness ==
    /\ step = "done"
    /\ markdown.now.year = 2024
    /\ Len(markdown.rows) = 2
    /\ markdown.rows[1].currencySums = [c \in {"EUR"} |-> Hundred]
    /\ markdown.rows[1].quarterRevenue = Fin(105, 1)
    /\ markdown.rows[2].quarterRevenue = Hundred

\* the sum of the CHF figures of the rows of the quarterly table
QuarterlySum ==
    LET Sum[i \in 0..Len(markdown.rows)] ==
            IF i = 0 THEN Zero ELSE Add(Sum[i - 1], markdown.rows[i].quarterRevenue)
    IN  Sum[Len(markdown.rows)]

\* C28: in the report of a year before the current year the CHF figures
\* of the rows Q1 to Q4 add up to totalRevenueCHF.  The file
\* 2024-13-acme.json is accepted, filed under month "13" and counted in
\* totalRevenueCHF, and belongs to no quarter
C28_Original ==
    (step = "done" /\ markdown.now.year > parseInt(ReportYear))
        => QuarterlySum = report.totalRevenueCHF

\* the bijections of 1..n
PermutationsOf(n) ==
    {f \in [1..n -> 1..n] : \A i, j \in 1..n : f[i] = f[j] => i = j}

\* `after` holds the entries of `before` in ascending order of date, the
\* entries of one date in the order they have in `before`
StablySortedByDate(before, after) ==
    /\ Len(after) = Len(before)
    /\ \A k \in 1..(Len(after) - 1) : ~TextLess(after[k + 1].date, after[k].date)
    /\ \E f \in PermutationsOf(Len(before)) :
          /\ \A k \in DOMAIN after : after[k] = before[f[k]]
          /\ \A j, k \in DOMAIN after :
                (j < k /\ after[j].date = after[k].date) => f[j] < f[k]

\* C24: the step that ends the aggregation leaves report.invoices in
\* ascending order of the date strings, as a permutation of the summaries
\* appended, in which summaries of one date keep the order in which they
\* were appended
C24_SortedStable ==
    [][(step = "aggregating" /\ step' = "done")
          => StablySortedByDate(report.invoices, report'.invoices)]_vars

\* April for Acme, then January for Bolt in EUR and for Acme in USD: the
\* written list reads Bolt, Acme (USD), Acme (April)
C24_Witness ==
    /\ step = "done"
    /\ Len(invoices) = 3
    /\ invoices[1].month = <<"0", "4">>
    /\ invoices[2].month = <<"0", "1">> /\ invoices[2].client = "Bolt"
    /\ invoices[3].month = <<"0", "1">> /\ invoices[3].currency = "USD"
    /\ report.invoices[1].client = "Bolt"
    /\ report.invoices[2].currency = "USD"
    /\ report.invoices[3].month = <<"0", "4">>

\* the sum of the invoice counts of the client entries
RECURSIVE CountSum(_)
CountSum(summary) ==
    IF DOMAIN summary = {} THEN 0
    ELSE LET client == CHOOSE c \in DOMAIN summary : TRUE
         IN  summary[client].invoiceCount
                 + CountSum([c \in DOMAIN summary \ {client} |-> summary[c]])

\* C29: while the invoices are aggregated and after the last one, the
\* invoice counts of the client entries add up to the length of
\* report.invoices, which is the number of invoices processed; in the
\* written report both are the number of invoice files of the year
C29_CountsAgree ==
    /\ step \in {"aggregating", "done"} =>
          /\ CountSum(report.clientSummary) = Len(report.invoices)
          /\ Len(report.invoices) = processed
          /\ \A client \in DOMAIN report.clientSummary :
                report.clientSummary[client].invoiceCount
                    = Cardinality({i \in 1..processed : invoices[i].client = client})
    /\ step = "done" =>
          /\ CountSum(report.clientSummary) = Len(invoices)
          /\ Len(report.invoices) = Len(invoices)

\* a written report of three files, two of Acme and one of Bolt
C29_Witness ==
    /\ step = "done"
    /\ Len(invoices) = 3
    /\ DOMAIN report.clientSummary = {"Acme", "Bolt"}
    /\ report.clientSummary["Acme"].invoiceCount = 2
    /\ report.clientSummary["Bolt"].invoiceCount = 1
    /\ Len(report.invoices) = 3

\* every monetary total of the report
MonetaryTotals ==
    {report.totalRevenueCHF}
        \cup {report.totalRevenue[c] : c \in DOMAIN report.totalRevenue}
        \cup UNION {{report.monthlyRevenue[m].total, report.monthlyRevenue[m].totalCHF}
                       \cup {report.monthlyRevenue[m].byCurrency[c] :
                                c \in DOMAIN report.monthlyRevenue[m].byCurrency} :
                    m \in DOMAIN report.monthlyRevenue}
        \cup UNION {{report.clientSummary[c].totalBilled,
                     report.clientSummary[c].totalBilledCHF} :
                    c \in DOMAIN report.clientSummary}
        \cup UNION {{report.invoices[i].amount, report.invoices[i].amountCHF} :
                    i \in DOMAIN report.invoices}

\* C25: every monetary total of the report is non-negative.  An invoice
\* with one item of -50 is aggregated like any other and leaves -50 in
\* every total it is added to
C25_Original ==
    step \in {"aggregating", "done"} =>
        \A total \in MonetaryTotals : total.k = "fin" /\ total.n >= 0

\* String.prototype.toUpperCase on the currency codes of the invoice files
UpperCase(currency) == IF currency = "eur" THEN "EUR" ELSE currency

\* the currency codes in the report
ReportCurrencies ==
    DOMAIN report.totalRevenue
        \cup UNION {DOMAIN report.monthlyRevenue[m].byCurrency :
                       m \in DOMAIN report.monthlyRevenue}
        \cup {report.clientSummary[c].currency : c \in DOMAIN report.clientSummary}
        \cup {report.invoices[i].currency : i \in DOMAIN report.invoices}

\* C26: every currency code in the report is in upper case, so that "eur"
\* and "EUR" are one key.  The currency of an invoice is used as written:
\* 100 "eur" and 100 "EUR" end up under the keys "eur" and "EUR"
C26_Original ==
    step \in {"aggregating", "done"} =>
        \A currency \in ReportCurrencies : UpperCase(currency) = currency

\* C27: the number the invoice generator prints for an invoice file and
\* the number the report lists for the same file are equal.  The file
\* 2025-3-acme.json without a number is numbered by each program from its
\* own clock: 2603-... when generated in March 2026 and 2611-... in a
\* report run in November 2026
C27_Original ==
    pair.pc = "listed" => pair.printed = pair.listed

\* C30: when mermaid-to-png has ended without --keep-temp, the temporary
\* directory it created is removed.  With an input file that does not
\* exist the process exits inside the try block and the directory stays
C30_Original ==
    (mmd.pc = "exited" /\ ~mmd.keepTemp /\ mmd.tempDir # "none")
        => mmd.tempDir = "removed"

====
